---- MODULE Spec2Model ----
(***************************************************************************)
(* Model of the layout engine of the tensor grid box visualizer            *)
(* (lib/layout.ts): getSampledIndices, getValue, computeLayout and         *)
(* centerPositions.                                                        *)
(*                                                                         *)
(* Representation                                                          *)
(*  - a JS array is a TLA+ sequence; JS index i is sequence index i + 1.   *)
(*  - a JSON value is a node record [tag, num, items]; tag is "num",       *)
(*    "arr", "other" (string, boolean, null, object) or "undef".           *)
(*  - a coordinate is stored doubled (x2 = 2 * x): every coordinate the    *)
(*    engine produces is an integer or an integer plus one half.           *)
(*  - a string is a sequence of one-character strings.                     *)
(***************************************************************************)
EXTENDS Integers, Sequences, FiniteSets

VARIABLES
    pc,          \* the pending call ("sample", "value", "layout", ...), "done" or
                 \* "threw" after it, "caller" or "app"
    size,        \* getSampledIndices: argument size
    maxCells,    \* getSampledIndices: argument maxCells
    indices,     \* getSampledIndices: the returned array
    data,        \* getValue: argument data (a node)
    indexPath,   \* getValue: argument indexPath
    value,       \* getValue: the returned value (a node, tag "num" or "undef")
    config,      \* computeLayout: the LayoutConfig argument
    instances,   \* computeLayout: the returned BoxInstance array
    heap,        \* the BoxInstance arrays allocated so far; a reference is an index
    calls,       \* the computeLayout calls made: [config, ref, result] at return
    shapeStr,    \* parseShape: argument input; App: the shape text
    dataStr,     \* parseTensor: argument input; App: the JSON data text
    shape,       \* parseShape: the returned array; App: the shape in use
    tensorData,  \* parseTensor: the returned value; App: the parsed data
    mode,        \* App: 'tiling' or 'slicing'
    dimOrder,    \* App: 'first-to-last' or 'last-to-first'
    sliceIndices, \* App: the slice selection
    labelsStr,   \* App: the labels text
    axisLabels,  \* App: the labels of the coordinate triad
    colorMode,   \* App: the colour mode, 'uniform' or 'axis'
    cubeColor,   \* App: the cube colour
    hovered,     \* App: the hovered BoxInstance or null
    dirty,       \* App: a state update waits for a render
    layoutLen,   \* TensorGrid: the length of the layout prop (layoutRef.current)
    colorModeRef,        \* TensorGrid: the colorMode prop of the last render
    baseColorRef,        \* TensorGrid: the base colour of the last render
    maxCountRef,         \* TensorGrid: maxCountRef.current
    maxCount,            \* TensorGrid: the memoised maxCount
    mesh,                \* TensorGrid: the InstancedMesh of meshRef, or none
    prevHoveredRef,      \* TensorGrid: prevHoveredRef.current
    pendingPointerRef,   \* TensorGrid: the instanceId of pendingPointerRef.current
    pointerOutPendingRef,\* TensorGrid: pointerOutPendingRef.current
    effectPending,       \* TensorGrid: the layout effect waits to run
    pointer,     \* history: the last pointer event the mesh got
    interval,    \* history: the pointer events since the last frame
    frameHovers, \* history: the onHover calls of the step just taken
    inputSinceMove \* history: a setting was changed since the last pointer move

sampleVars == <<size, maxCells, indices>>
valueVars == <<data, indexPath, value>>
layoutVars == <<config, instances>>
callVars == <<heap, calls>>
textVars == <<shapeStr, dataStr, shape, tensorData>>
appVars == <<mode, dimOrder, sliceIndices>>
labelVars == <<labelsStr, axisLabels>>
hoverVars == <<hovered, dirty>>
settingVars == <<colorMode, cubeColor>>
renderVars == <<layoutLen, colorModeRef, baseColorRef, maxCountRef, maxCount, effectPending>>
meshVars == <<mesh, prevHoveredRef>>
pointerVars == <<pendingPointerRef, pointerOutPendingRef>>
historyVars == <<pointer, interval, frameHovers, inputSinceMove>>
gridVars == <<hoverVars, settingVars, renderVars, meshVars, pointerVars, historyVars>>
viewVars == <<labelVars, gridVars>>
vars == <<pc, sampleVars, valueVars, layoutVars, callVars, textVars, appVars, viewVars>>

(***************************************************************************)
(* Bounds of the model                                                     *)
(***************************************************************************)
MaxSize == 13       \* getSampledIndices sizes are 0..MaxSize
MaxCap == 7         \* getSampledIndices caps are 0..MaxCap
MaxPathLen == 3     \* getValue index paths have length 0..MaxPathLen
MaxIndex == 2       \* and indices -1..MaxIndex
MaxRank == 4        \* computeLayout shapes have rank 0..MaxRank
MaxDim == 3         \* with dimension sizes 1..MaxDim
MaxCells == 8       \* and at most MaxCells elements,
LargeDim == 12      \* and the shapes [LargeDim] and [LargeDim - 1, LargeDim]
MaxCalls == 3       \* a caller makes at most MaxCalls computeLayout calls
MaxShapeText == 4   \* parseShape gets every text of up to MaxShapeText characters
MaxJsonText == 5    \* parseTensor gets every text of up to MaxJsonText characters

(***************************************************************************)
(* JSON values                                                             *)
(***************************************************************************)
Undefined == [tag |-> "undef", num |-> 0, items |-> <<>>]
Other == [tag |-> "other", num |-> 0, items |-> <<>>]
Num(n) == [tag |-> "num", num |-> n, items |-> <<>>]
Arr(s) == [tag |-> "arr", num |-> 0, items |-> s]

IsArray(v) == v.tag = "arr"
IsNumber(v) == v.tag = "num"

\* curr[idx] of JavaScript: undefined when idx is no own index of the array.
At(curr, idx) ==
    IF IsArray(curr) /\ idx >= 0 /\ idx < Len(curr.items)
    THEN curr.items[idx + 1]
    ELSE Undefined

(***************************************************************************)
(* getSampledIndices                                                       *)
(***************************************************************************)
Max(a, b) == IF a > b THEN a ELSE b
Min(a, b) == IF a < b THEN a ELSE b

\* Numbers are IEEE 754 doubles.  A double x >= 0 is held in binary as a
\* sequence of limbs, each of LimbBits bits, most significant first and the
\* first and the last of them not 0, of which the first `whole` stand before
\* the binary point: x is the sum of limbs[k] * Radix^(whole - k).  Zero has no limbs.
\* A double has at most Precision significant bits.  The integers that are
\* divided and multiplied are below 2^19.
Precision == 53
LimbBits == 12
Radix == 4096

Zero == [limbs |-> <<>>, whole |-> 0]

RECURSIVE Pow2(_)
Pow2(n) == IF n = 0 THEN 1 ELSE 2 * Pow2(n - 1)

RECURSIVE BitLength(_)
BitLength(n) == IF n = 0 THEN 0 ELSE 1 + BitLength(n \div 2)

RECURSIVE LimbsOf(_)
LimbsOf(n) == IF n = 0 THEN <<>> ELSE Append(LimbsOf(n \div Radix), n % Radix)

LimbAt(limbs, k) == IF k \in 1..Len(limbs) THEN limbs[k] ELSE 0

\* The integer the first n limbs stand for
RECURSIVE IntValue(_, _)
IntValue(limbs, n) ==
    IF n = 0 THEN 0 ELSE Radix * IntValue(limbs, n - 1) + LimbAt(limbs, n)

\* limbs + amount * Radix^(Len(limbs) - k), for limbs that do not start with 0
RECURSIVE AddAt(_, _, _)
AddAt(limbs, k, amount) ==
    IF amount = 0 THEN [limbs |-> limbs, grown |-> 0]
    ELSE IF k = 0 THEN [limbs |-> <<amount>> \o limbs, grown |-> 1]
    ELSE AddAt([limbs EXCEPT ![k] = (limbs[k] + amount) % Radix], k - 1,
               (limbs[k] + amount) \div Radix)

RECURSIVE TrimZeros(_)
TrimZeros(limbs) ==
    IF limbs # <<>> /\ limbs[Len(limbs)] = 0
    THEN TrimZeros(SubSeq(limbs, 1, Len(limbs) - 1))
    ELSE limbs

\* Rounding of an exact result to a double, to nearest and ties to even:
\* limbs are its leading limbs, sticky says that nonzero bits follow them.
\* The last kept bit is in the limb at position cut, above its `low` low bits.
RoundToDouble(limbs, whole, sticky) ==
    IF Len(limbs) <= 1 + ((Precision - LimbBits) \div LimbBits) /\ ~sticky
    THEN [limbs |-> TrimZeros(limbs), whole |-> whole]
    ELSE
    LET kept == Precision - BitLength(limbs[1])
        cut == 2 + (kept \div LimbBits)
        low == LimbBits - (kept % LimbBits)
        dropped == LimbAt(limbs, cut) % Pow2(low)
        rest == \/ sticky
                \/ dropped % Pow2(low - 1) # 0
                \/ \E k \in (cut + 1)..Len(limbs) : limbs[k] # 0
        even == IF low < LimbBits
                THEN (LimbAt(limbs, cut) \div Pow2(low)) % 2 = 0
                ELSE LimbAt(limbs, cut - 1) % 2 = 0
        up == dropped \div Pow2(low - 1) = 1 /\ (rest \/ ~even)
        chopped == IF cut <= Len(limbs)
                   THEN Append(SubSeq(limbs, 1, cut - 1), limbs[cut] - dropped)
                   ELSE limbs
        sum == IF low < LimbBits THEN AddAt(chopped, cut, Pow2(low))
               ELSE AddAt(chopped, cut - 1, 1)
    IN  IF ~up THEN [limbs |-> TrimZeros(chopped), whole |-> whole]
        ELSE [limbs |-> TrimZeros(sum.limbs), whole |-> whole + sum.grown]

\* The expansion of r / den (r < den) to the given number of limbs, or to
\* its end
RECURSIVE FractionLimbs(_, _, _, _)
FractionLimbs(r, den, count, acc) ==
    IF count <= 0 \/ r = 0 \/ Len(acc) < 0 THEN [limbs |-> acc, rem |-> r]
    ELSE FractionLimbs((r * Radix) % den, den, count - 1,
                       Append(acc, (r * Radix) \div den))

\* num / den in doubles, for integers num >= 0 and den > 0: the quotient's
\* first limb and the 5 limbs after it hold more than Precision bits
RECURSIVE DivideScaled(_, _, _)
DivideScaled(num, den, shift) ==
    IF num = 0 THEN Zero
    ELSE IF num < den THEN DivideScaled(num * Radix, den, shift + 1)
    ELSE LET first == LimbsOf(num \div den)
             frac == FractionLimbs(num % den, den, 6 - Len(first), <<>>)
         IN  RoundToDouble(first \o frac.limbs, Len(first) - shift, frac.rem # 0)

Divide(num, den) == DivideScaled(num, den, 0)

\* i * x in doubles, for an integer i >= 0 and a double x
RECURSIVE TimesLoop(_, _, _, _, _)
TimesLoop(limbs, k, i, carry, acc) ==
    IF k = 0 \/ carry < 0 \/ Len(acc) < 0
    THEN [limbs |-> LimbsOf(carry) \o acc, grown |-> Len(LimbsOf(carry))]
    ELSE TimesLoop(limbs, k - 1, i, (limbs[k] * i + carry) \div Radix,
                   <<(limbs[k] * i + carry) % Radix>> \o acc)

Times(i, x) ==
    IF i = 0 \/ x = Zero THEN Zero
    ELSE LET product == TimesLoop(x.limbs, Len(x.limbs), i, 0, <<>>)
         IN  RoundToDouble(product.limbs, x.whole + product.grown, FALSE)

\* Math.round(x) for a double x >= 0: the nearest integer, halves round up
MathRound(x) ==
    IF x.whole < 0 \/ x = Zero THEN 0
    ELSE IntValue(x.limbs, x.whole)
             + (IF LimbAt(x.limbs, x.whole + 1) >= Radix \div 2 THEN 1 ELSE 0)

\* Set.add: insertion order, no duplicates.
SetAdd(s, x) == IF \E k \in 1..Len(s) : s[k] = x THEN s ELSE Append(s, x)

\* A step of size / maxCells: the last sample is not anchored at size - 1.
StepUnanchored(sz, cap) == Divide(sz, cap)

\* const step = (size - 1) / (maxCells - 1)
StepOf(sz, cap) == Divide(sz - 1, cap - 1)

\* Math.round(i * step)
RoundedSample(i, step) == MathRound(Times(i, step))

\* A loop that runs for i = 0..maxCells, one time more.
RECURSIVE SampleLoopInclusive(_, _, _, _)
SampleLoopInclusive(i, step, cap, acc) ==
    IF i <= cap /\ Len(acc) >= 0
    THEN SampleLoopInclusive(i + 1, step, cap, SetAdd(acc, RoundedSample(i, step)))
    ELSE acc

RECURSIVE SampleLoop(_, _, _, _)
SampleLoop(i, step, cap, acc) ==
    IF i < cap /\ Len(acc) >= 0
    THEN SampleLoop(i + 1, step, cap, SetAdd(acc, RoundedSample(i, step)))
    ELSE acc

getSampledIndices(sz, cap) ==
    IF sz <= cap THEN [i \in 1..sz |-> i - 1]
    ELSE IF cap < 2 THEN <<0>>
    ELSE SampleLoop(0, StepOf(sz, cap), cap, <<>>)

(***************************************************************************)
(* getValue                                                                *)
(***************************************************************************)
\* A lookup that returns whatever node the walk ends on.
AnyNode(curr) == curr

\* The value returned after the loop: typeof curr === 'number' ? curr : undefined
NumberOrUndefined(curr) == IF IsNumber(curr) THEN curr ELSE Undefined

RECURSIVE ValueLoop(_, _, _)
ValueLoop(curr, path, k) ==
    IF k > Len(path) THEN NumberOrUndefined(curr)
    ELSE IF ~IsArray(curr) \/ Len(curr.items) <= path[k] THEN Undefined
    ELSE ValueLoop(At(curr, path[k]), path, k + 1)

getValue(d, path) ==
    IF d.tag = "undef" \/ ~IsArray(d) THEN Undefined
    ELSE ValueLoop(d, path, 1)

(***************************************************************************)
(* parseShape                                                              *)
(***************************************************************************)
MaxN == 8           \* slice(0, 8): max N=8

DigitChars == {"0", "1", "2", "3", "4", "5", "6", "7", "8", "9"}
DigitValue(c) ==
    CHOOSE v \in 0..9 : <<"0", "1", "2", "3", "4", "5", "6", "7", "8", "9">>[v + 1] = c

\* input.match(/\d+/g): the maximal runs of digits, left to right; run holds
\* the digits matched since the last character that is no digit.  An empty
\* result stands for null (no match).
RECURSIVE Match(_, _, _)
Match(input, k, run) ==
    LET matched == IF run = <<>> THEN <<>> ELSE <<run>>
    IN  IF k > Len(input) THEN matched
        ELSE IF input[k] \in DigitChars THEN Match(input, k + 1, Append(run, input[k]))
        ELSE matched \o Match(input, k + 1, <<>>)

\* Number(str) for a string of decimal digits (leading zeros allowed); the
\* strings of the model stay below 2^31.
RECURSIVE Number(_)
Number(str) ==
    IF str = <<>> THEN 0
    ELSE 10 * Number(SubSeq(str, 1, Len(str) - 1)) + DigitValue(str[Len(str)])

\* Array.prototype.slice(from, to) for 0 <= from
Slice(s, from, to) == SubSeq(s, from + 1, IF to < Len(s) THEN to ELSE Len(s))

IsPositive(n) == n > 0

\* Truncation applied before the filter.
FirstOfPositive(nums) == SelectSeq(Slice(nums, 0, MaxN), IsPositive)

\* .filter(n => n > 0).slice(0, 8)
PositiveFirst(nums) == Slice(SelectSeq(nums, IsPositive), 0, MaxN)

parseShape(input) ==
    LET matches == Match(input, 1, <<>>)
    IN  IF matches = <<>> THEN <<>>
        ELSE PositiveFirst([k \in 1..Len(matches) |-> Number(matches[k])])

(***************************************************************************)
(* parseTensor                                                             *)
(***************************************************************************)
\* JSON.parse for texts of brackets, commas, spaces, integers without sign,
\* strings without escapes and the empty object: the value and the position
\* after it, or ok = FALSE where JSON.parse throws a SyntaxError.
ParseError == [ok |-> FALSE, node |-> Undefined, next |-> 0]
Parsed(node, next) == [ok |-> TRUE, node |-> node, next |-> next]

RECURSIVE SkipSpace(_, _)
SkipSpace(str, k) ==
    IF k <= Len(str) /\ str[k] = " " THEN SkipSpace(str, k + 1) ELSE k

\* The position after the digits that start at k
RECURSIVE DigitsEnd(_, _)
DigitsEnd(str, k) ==
    IF k <= Len(str) /\ str[k] \in DigitChars THEN DigitsEnd(str, k + 1) ELSE k

\* The position of the quote that closes a string opened before k, or 0
RECURSIVE ClosingQuote(_, _)
ClosingQuote(str, k) ==
    IF k > Len(str) THEN 0
    ELSE IF str[k] = "\"" THEN k
    ELSE ClosingQuote(str, k + 1)

RECURSIVE ParseValue(_, _)
RECURSIVE ParseElements(_, _, _)

\* A JSON value that starts at k, after spaces
ParseValue(str, k) ==
    LET j == SkipSpace(str, k)
    IN  IF j > Len(str) THEN ParseError
        ELSE IF str[j] = "[" THEN
            LET e == SkipSpace(str, j + 1)
            IN  IF e <= Len(str) /\ str[e] = "]" THEN Parsed(Arr(<<>>), e + 1)
                ELSE ParseElements(str, j + 1, <<>>)
        ELSE IF str[j] \in DigitChars THEN
            LET e == DigitsEnd(str, j)
            IN  IF str[j] = "0" /\ e > j + 1 THEN ParseError
                ELSE Parsed(Num(Number(SubSeq(str, j, e - 1))), e)
        ELSE IF str[j] = "\"" THEN
            LET e == ClosingQuote(str, j + 1)
            IN  IF e = 0 THEN ParseError ELSE Parsed(Other, e + 1)
        ELSE IF str[j] = "{" THEN
            LET e == SkipSpace(str, j + 1)
            IN  IF e <= Len(str) /\ str[e] = "}" THEN Parsed(Other, e + 1)
                ELSE ParseError
        ELSE ParseError

\* The elements of an array from k on, items being those read so far
ParseElements(str, k, items) ==
    LET v == ParseValue(str, k)
        j == SkipSpace(str, v.next)
    IN  IF ~v.ok \/ j > Len(str) THEN ParseError
        ELSE IF str[j] = "," THEN ParseElements(str, j + 1, Append(items, v.node))
        ELSE IF str[j] = "]" THEN Parsed(Arr(Append(items, v.node)), j + 1)
        ELSE ParseError

JSONParse(input) ==
    LET v == ParseValue(input, 1)
    IN  IF v.ok /\ SkipSpace(input, v.next) > Len(input) THEN v ELSE ParseError

\* The value parseTensor returns: null is ok = FALSE
NoTensor == [ok |-> FALSE, shape |-> <<>>, data |-> Undefined]

\* A descent through the last element of each level.
LastElement(curr) == curr.items[Len(curr.items)]

\* curr = curr[0]
FirstElement(curr) == curr.items[1]

\* while (Array.isArray(curr)) { shape.push(curr.length); ... }
RECURSIVE ShapeLoop(_, _)
ShapeLoop(curr, sh) ==
    IF ~IsArray(curr) THEN sh
    ELSE IF Len(curr.items) > 0
         THEN ShapeLoop(FirstElement(curr), Append(sh, Len(curr.items)))
         ELSE Append(sh, Len(curr.items))

parseTensor(input) ==
    LET parsed == JSONParse(input)
    IN  IF ~parsed.ok THEN NoTensor
        ELSE IF ~IsArray(parsed.node) THEN NoTensor
        ELSE [ok |-> TRUE, shape |-> ShapeLoop(parsed.node, <<>>), data |-> parsed.node]

(***************************************************************************)
(* computeLayout                                                           *)
(***************************************************************************)
Null == -1          \* a spatial slot bound to no dimension (null)
SPACING == 2        \* gaps between replicated cubes


\* Array.prototype.includes and indexOf
Includes(s, x) == \E k \in 1..Len(s) : s[k] = x
IndexOf(s, x) ==
    IF Includes(s, x)
    THEN (CHOOSE k \in 1..Len(s) : s[k] = x /\ \A j \in 1..(k - 1) : s[j] # x) - 1
    ELSE -1

\* The earlier tiling policy: in tiling mode only the last two outer
\* dimensions tile and the outer dimensions before them are pages.
LegacyPageDims(cfg) ==
    IF cfg.mode = "slicing" THEN cfg.outerDims
    ELSE SubSeq(cfg.outerDims, 1, Len(cfg.outerDims) - 2)

activePageDims(cfg) == IF cfg.mode = "slicing" THEN cfg.outerDims ELSE <<>>
activeTileDims(cfg) == IF cfg.mode = "slicing" THEN <<>> ELSE cfg.outerDims

\* sliceIndices[d] ?? 0
SliceOrZero(cfg, d) ==
    IF d \in DOMAIN cfg.sliceIndices THEN cfg.sliceIndices[d] ELSE 0

\* A clamp whose upper limit is size instead of size - 1.
ForcedIndexToSize(idx, sz) == Max(0, Min(idx, sz))

\* The forced index of a page dimension: Math.max(0, Math.min(idx, size - 1))
ForcedIndex(idx, sz) == Max(0, Min(idx, sz - 1))

\* dimIndices that force the index of any dimension sliceIndices has an entry
\* for, page dimension or not.
dimIndicesOfAnyEntry(cfg) ==
    [k \in 1..Len(cfg.shape) |->
        IF Includes(activePageDims(cfg), k - 1) \/ (k - 1) \in DOMAIN cfg.sliceIndices
        THEN <<ForcedIndex(SliceOrZero(cfg, k - 1), cfg.shape[k])>>
        ELSE getSampledIndices(cfg.shape[k], cfg.maxCellsPerDim)]

dimIndices(cfg) ==
    [k \in 1..Len(cfg.shape) |->
        IF Includes(activePageDims(cfg), k - 1)
        THEN <<ForcedIndex(SliceOrZero(cfg, k - 1), cfg.shape[k])>>
        ELSE getSampledIndices(cfg.shape[k], cfg.maxCellsPerDim)]

\* blockSizeX/Y/Z: the sampled count of the dimension bound to the slot
blockSize(cfg, slot) ==
    IF cfg.spatialDims[slot] # Null
    THEN Len(dimIndices(cfg)[cfg.spatialDims[slot] + 1])
    ELSE 1

\* A running step that does not grow with the tile dimensions before it.
NextStepFlat(step, numCells) == step

\* The running step of an axis after a tile dimension of numCells cells
NextStep(step, numCells) == step * numCells + SPACING

\* An axis assignment in slot order: X, Y, Z, X, ...
AxisInSlotOrder(i) == (i % 3) + 1

\* activeTileDims.forEach: tileSteps maps a tile dimension to its axis and
\* step; cur holds currentStepX, currentStepY, currentStepZ (slots 1, 2, 3).
AxisOf(i) == IF i % 3 = 0 THEN 2 ELSE IF i % 3 = 1 THEN 1 ELSE 3

RECURSIVE TileStepsLoop(_, _, _, _, _)
TileStepsLoop(tiles, di, i, cur, tileSteps) ==
    IF i >= Len(tiles) THEN tileSteps
    ELSE LET dim == tiles[i + 1]
             axis == AxisOf(i)
             info == [axis |-> axis, step |-> cur[axis]]
         IN  TileStepsLoop(tiles, di, i + 1,
                 [cur EXCEPT ![axis] = NextStep(cur[axis], Len(di[dim + 1]))],
                 [d \in DOMAIN tileSteps \cup {dim} |->
                     IF d = dim THEN info ELSE tileSteps[d]])

tileStepsOf(cfg) ==
    IF cfg.mode = "tiling"
    THEN TileStepsLoop(activeTileDims(cfg), dimIndices(cfg), 0,
             [a \in 1..3 |-> blockSize(cfg, a) + SPACING],
             [d \in {} |-> [axis |-> 0, step |-> 0]])
    ELSE [d \in {} |-> [axis |-> 0, step |-> 0]]

\* rX, rY, rZ: the rank of the path's index within the slot's sampled set
SlotRank(cfg, di, path, slot) ==
    IF cfg.spatialDims[slot] # Null
    THEN IndexOf(di[cfg.spatialDims[slot] + 1], path[cfg.spatialDims[slot] + 1])
    ELSE 0

\* addX, addY, addZ: the loop over activeTileDims, for one axis
RECURSIVE TileAdd(_, _, _, _, _, _)
TileAdd(tiles, di, tileSteps, path, axis, k) ==
    IF k > Len(tiles) THEN 0
    ELSE LET tileDim == tiles[k]
             here == IF tileDim \in DOMAIN tileSteps /\ tileSteps[tileDim].axis = axis
                     THEN IndexOf(di[tileDim + 1], path[tileDim + 1]) * tileSteps[tileDim].step
                     ELSE 0
         IN  here + TileAdd(tiles, di, tileSteps, path, axis, k + 1)

\* Number.prototype.toString for a non-negative integer
Digit(n) == <<"0", "1", "2", "3", "4", "5", "6", "7", "8", "9">>[n + 1]

RECURSIVE NumberToString(_)
NumberToString(n) ==
    IF n < 0 THEN <<"-">> \o NumberToString(0 - n)
    ELSE IF n < 10 THEN <<Digit(n)>>
    ELSE NumberToString(n \div 10) \o <<Digit(n % 10)>>

\* Array.prototype.join
RECURSIVE JoinFrom(_, _, _)
JoinFrom(path, sep, k) ==
    IF k > Len(path) THEN <<>>
    ELSE (IF k > 1 THEN sep ELSE <<>>) \o NumberToString(path[k]) \o JoinFrom(path, sep, k + 1)

Join(path, sep) == JoinFrom(path, sep, 1)

\* An id joined without a separator.
IdOfUnseparated(path) == Join(path, <<>>)

\* The id of an instance: indexPath.join(',')
IdOf(path) == Join(path, <<",">>)

\* A position whose z grows with the rank: z = rZ + addZ.
PositionOfUnsignedZ(cfg, di, tileSteps, path) ==
    LET tiles == activeTileDims(cfg)
        x == SlotRank(cfg, di, path, 1) + TileAdd(tiles, di, tileSteps, path, 1, 1)
        y == (0 - SlotRank(cfg, di, path, 2)) - TileAdd(tiles, di, tileSteps, path, 2, 1)
        z == SlotRank(cfg, di, path, 3) + TileAdd(tiles, di, tileSteps, path, 3, 1)
    IN  <<2 * x, 2 * y, 2 * z>>

\* The position of a cell before centering; coordinates are doubled.
PositionOf(cfg, di, tileSteps, path) ==
    LET tiles == activeTileDims(cfg)
        x == SlotRank(cfg, di, path, 1) + TileAdd(tiles, di, tileSteps, path, 1, 1)
        y == (0 - SlotRank(cfg, di, path, 2)) - TileAdd(tiles, di, tileSteps, path, 2, 1)
        z == (0 - SlotRank(cfg, di, path, 3)) - TileAdd(tiles, di, tileSteps, path, 3, 1)
    IN  <<2 * x, 2 * y, 2 * z>>

\* An instance whose indexPath is currentPath itself and not a copy of it:
\* after the traversal's last pop that one array is empty.
LeafInstanceAliased(cfg, di, tileSteps, currentPath) ==
    [id |-> IdOf(currentPath),
     position |-> PositionOf(cfg, di, tileSteps, currentPath),
     indexPath |-> <<>>,
     value |-> getValue(cfg.data, currentPath)]

\* An instance whose value is looked up by the ranks of its indices within
\* the sampled sets instead of by the indices themselves.
LeafInstanceValueByRank(cfg, di, tileSteps, currentPath) ==
    [id |-> IdOf(currentPath),
     position |-> PositionOf(cfg, di, tileSteps, currentPath),
     indexPath |-> currentPath,
     value |-> getValue(cfg.data,
                   [k \in 1..Len(currentPath) |-> IndexOf(di[k], currentPath[k])])]

\* The instance pushed when dim === shape.length
LeafInstance(cfg, di, tileSteps, currentPath) ==
    [id |-> IdOf(currentPath),
     position |-> PositionOf(cfg, di, tileSteps, currentPath),
     indexPath |-> currentPath,
     value |-> getValue(cfg.data, currentPath)]

\* A traversal whose leaf puts the instance in front of the array
\* (instances.unshift).
RECURSIVE recurseUnshift(_, _, _, _, _, _, _)
recurseUnshift(cfg, di, tileSteps, dim, currentPath, k, insts) ==
    IF dim = Len(cfg.shape)
    THEN <<LeafInstance(cfg, di, tileSteps, currentPath)>> \o insts
    ELSE IF k > Len(di[dim + 1]) THEN insts
    ELSE LET pushed == recurseUnshift(cfg, di, tileSteps, dim + 1,
                                      Append(currentPath, di[dim + 1][k]), 1, insts)
         IN  IF Len(pushed) >= Len(insts)
             THEN recurseUnshift(cfg, di, tileSteps, dim, currentPath, k + 1, pushed)
             ELSE pushed

\* recurse(dim, currentPath): returns the insts array after the call.
\* k is the position of the for loop within dimIndices[dim].
RECURSIVE recurse(_, _, _, _, _, _, _)
recurse(cfg, di, tileSteps, dim, currentPath, k, insts) ==
    IF dim = Len(cfg.shape)
    THEN Append(insts, LeafInstance(cfg, di, tileSteps, currentPath))
    ELSE IF k > Len(di[dim + 1]) THEN insts
    ELSE LET pushed == recurse(cfg, di, tileSteps, dim + 1,
                               Append(currentPath, di[dim + 1][k]), 1, insts)
         IN  \* the inner call has returned (pushed is known) before the loop goes on
             IF Len(pushed) >= Len(insts)
             THEN recurse(cfg, di, tileSteps, dim, currentPath, k + 1, pushed)
             ELSE pushed

\* centerPositions
SeqMin(s) == CHOOSE m \in {s[k] : k \in 1..Len(s)} : \A k \in 1..Len(s) : m <= s[k]
SeqMax(s) == CHOOSE m \in {s[k] : k \in 1..Len(s)} : \A k \in 1..Len(s) : m >= s[k]

\* A centre truncated to an integer: Math.floor((min + max) / 2).
CenterFloored(insts, axis) ==
    LET coords == [k \in 1..Len(insts) |-> insts[k].position[axis]]
    IN  2 * ((SeqMin(coords) + SeqMax(coords)) \div 4)

\* (min + max) / 2 of one axis, doubled as the positions are
Center(insts, axis) ==
    LET coords == [k \in 1..Len(insts) |-> insts[k].position[axis]]
    IN  (SeqMin(coords) + SeqMax(coords)) \div 2

centerPositions(insts) ==
    IF Len(insts) = 0 THEN insts
    ELSE LET c == [axis \in 1..3 |-> Center(insts, axis)]
         IN  [k \in 1..Len(insts) |->
                 [insts[k] EXCEPT !.position =
                     [axis \in 1..3 |-> insts[k].position[axis] - c[axis]]]]

\* Where computeLayout throws a TypeError: dimIndices[d] is undefined for a d
\* that is no index of shape, and reading .length of it throws.  A slot is
\* read when it is not null (blockSizeX/Y/Z), an outer dimension when it
\* tiles (numCells); an empty shape returns before either.
\* A slot read without the test for null.
SlotRaisesOnNull(cfg, slot) ==
    cfg.spatialDims[slot] \notin 0..(Len(cfg.shape) - 1)

SlotRaises(cfg, slot) ==
    /\ cfg.spatialDims[slot] # Null
    /\ cfg.spatialDims[slot] \notin 0..(Len(cfg.shape) - 1)

TileRaises(cfg) ==
    /\ cfg.mode = "tiling"
    /\ \E k \in 1..Len(activeTileDims(cfg)) :
           activeTileDims(cfg)[k] \notin 0..(Len(cfg.shape) - 1)

Raises(cfg) ==
    /\ Len(cfg.shape) > 0
    /\ ((\E slot \in 1..3 : SlotRaises(cfg, slot)) \/ TileRaises(cfg))

\* A computeLayout without the test for an empty shape: recurse(0, []) is at
\* a leaf at once and pushes one instance.
computeLayoutIntoUnguarded(cfg, insts) ==
    IF Len(cfg.shape) = 0
    THEN Append(insts, [id |-> <<>>, position |-> <<0, 0, 0>>, indexPath |-> <<>>,
                        value |-> getValue(cfg.data, <<>>)])
    ELSE centerPositions(
             recurse(cfg, dimIndices(cfg), tileStepsOf(cfg), 0, <<>>, 1, insts))

\* computeLayout, given the contents of the array that `instances` names
\* when recurse(0, []) starts
computeLayoutInto(cfg, insts) ==
    IF Len(cfg.shape) = 0 THEN <<>>
    ELSE centerPositions(
             recurse(cfg, dimIndices(cfg), tileStepsOf(cfg), 0, <<>>, 1, insts))

\* const instances: BoxInstance[] = [] is a new, empty array
computeLayout(cfg) == computeLayoutInto(cfg, <<>>)

(***************************************************************************)
(* Arrays as objects: computeLayout called again and again by one caller   *)
(***************************************************************************)
\* The contents of the array a reference names; a new array is empty.
ArrayAt(h, ref) == IF ref \in 1..Len(h) THEN h[ref] ELSE <<>>

\* The heap after the array a reference names has been given new contents
Store(h, ref, contents) ==
    IF ref \in 1..Len(h) THEN [h EXCEPT ![ref] = contents] ELSE Append(h, contents)

\* An array literal that hands back the array made last.
ReusedArray(h) == IF Len(h) = 0 THEN 1 ELSE Len(h)

\* [] evaluates to an array that did not exist before
NewArray(h) == Len(h) + 1

\* One scratch array, allocated once and shared by all calls.
SharedInstances(h) == 1

\* const instances: BoxInstance[] = []
InstancesRef(h) == NewArray(h)

\* The array computeLayout returns: `return []` for an empty shape, and
\* `instances`, filled by recurse and centred in place, otherwise
ReturnedRef(cfg, h) == IF Len(cfg.shape) = 0 THEN NewArray(h) ELSE InstancesRef(h)

ReturnedContents(cfg, h) == computeLayoutInto(cfg, ArrayAt(h, ReturnedRef(cfg, h)))

(***************************************************************************)
(* Inputs                                                                  *)
(***************************************************************************)
RECURSIVE SeqsUpTo(_, _)
SeqsUpTo(S, n) ==
    IF n = 0 THEN {<<>>}
    ELSE LET shorter == SeqsUpTo(S, n - 1)
         IN  shorter \cup {Append(s, x) : s \in {t \in shorter : Len(t) = n - 1}, x \in S}

Range(s) == {s[k] : k \in 1..Len(s)}

NumArr(s) == Arr([k \in 1..Len(s) |-> Num(s[k])])

\* The data values given to getValue: no data, and nested arrays that are
\* empty, regular, ragged, or hold a leaf that is not a number.
DataSamples ==
    { Undefined,
      Arr(<<>>),
      Arr(<<NumArr(<<1, 2>>), NumArr(<<3, 4>>)>>),
      Arr(<<Num(1), NumArr(<<2, 3>>)>>),
      Arr(<<NumArr(<<1>>), Other>>),
      Arr(<<Arr(<<NumArr(<<5>>)>>), Arr(<<Num(6), Other>>)>>),
      Arr(<<Arr(<<>>), NumArr(<<7>>)>>) }

PathSamples == SeqsUpTo(-1..MaxIndex, MaxPathLen)

RECURSIVE Product(_, _)
Product(s, k) == IF k > Len(s) THEN 1 ELSE s[k] * Product(s, k + 1)

Shapes ==
    {s \in SeqsUpTo(1..MaxDim, MaxRank) : Product(s, 1) <= MaxCells}
        \cup {<<LargeDim>>, <<LargeDim - 1, LargeDim>>}

\* The spatial slots of a shape of the given rank: each slot null or a
\* dimension, no dimension in two slots.
SlotChoices(rank) ==
    {sd \in [1..3 -> {Null} \cup 0..(rank - 1)] :
        \A a, b \in 1..3 : a # b /\ sd[a] # Null => sd[a] # sd[b]}

\* The dimensions no slot holds, ascending (the caller's outerDims).
RECURSIVE Remaining(_, _, _)
Remaining(rank, sd, d) ==
    IF d >= rank THEN <<>>
    ELSE (IF \E a \in 1..3 : sd[a] = d THEN <<>> ELSE <<d>>) \o Remaining(rank, sd, d + 1)

NoSlices == [d \in {} |-> 0]

\* Slots filled in the order X, Y, Z: dimension 0 (or the last) bound to X.
effectiveSpatialDimsXFirst(order, l) ==
    IF order = "first-to-last"
    THEN <<IF l >= 1 THEN 0 ELSE Null, IF l >= 2 THEN 1 ELSE Null, IF l >= 3 THEN 2 ELSE Null>>
    ELSE <<IF l >= 1 THEN l - 1 ELSE Null, IF l >= 2 THEN l - 2 ELSE Null,
           IF l >= 3 THEN l - 3 ELSE Null>>

\* The slots the App fills (effectiveSpatialDims) for a shape of rank l:
\* first-to-last binds dimension 0 to Y, 1 to X, 2 to Z; last-to-first binds
\* the last dimension to Y, the one before to X, the one before that to Z.
effectiveSpatialDims(order, l) ==
    IF order = "first-to-last"
    THEN <<IF l >= 2 THEN 1 ELSE Null, IF l >= 1 THEN 0 ELSE Null, IF l >= 3 THEN 2 ELSE Null>>
    ELSE <<IF l >= 2 THEN l - 2 ELSE Null, IF l >= 1 THEN l - 1 ELSE Null,
           IF l >= 3 THEN l - 3 ELSE Null>>

\* sliceIndices with a value under every key 0..MaxRank-1 (keys beyond the
\* rank are left over from an earlier shape): -1, 0, 1, ... by key, which is
\* negative, in range or too large for the dimension, and MaxDim, MaxDim-1,
\* ... by key.
SliceMaps ==
    { [d \in 0..(MaxRank - 1) |-> d - 1],
      [d \in 0..(MaxRank - 1) |-> MaxDim - d] }

\* The slots and sliceIndices of the configurations: every partition of the
\* dimensions with no slice selection, and the App's two slot assignments,
\* the assignment with only X bound (to dimension 0) and the assignment with
\* no slot bound with every slice selection.
SlotAndSliceChoices(rank) ==
    (SlotChoices(rank) \X {NoSlices})
        \cup ({effectiveSpatialDims("first-to-last", rank),
               effectiveSpatialDims("last-to-first", rank),
               <<0, Null, Null>>,
               <<Null, Null, Null>>} \X SliceMaps)

\* The texts given to parseShape: every text of up to MaxShapeText characters
\* over digits, a comma and a letter, and longer examples (among them texts
\* with more than MaxN digit runs, with zeros before the MaxN-th positive
\* value, and with leading zeros).
ShapeChars == {"0", "1", "2", ",", "x"}

ShapeExamples ==
    { <<"[", "1", "0", ",", " ", "2", "0", "]">>,
      <<"B", ":", " ", "1", "0", ",", " ", "L", ":", " ", "2", "0">>,
      <<"[", "4", ",", " ", "4", ",", " ", "4", "]">>,
      <<"2", ",", " ", "3", ",", " ", "4", ",", " ", "5">>,
      <<"1", ",", "2", ",", "3", ",", "4", ",", "5", ",", "6", ",", "7", ",", "8", ",", "9">>,
      <<"1", ",", "0", ",", "2", ",", "0", ",", "3", ",", "4", ",", "5", ",", "6", ",", "7", ",", "8", ",", "9", ",", "1">>,
      <<"0", "0", "7", " ", "x", "0", " ", "3", "0">>,
      <<"0", ",", "0", ",", "0", ",", "0", ",", "0", ",", "0", ",", "0", ",", "0", ",", "5">>,
      <<"2", "x", "3", "x", "4", "x", "5", "x", "6", "x", "7", "x", "8", "x", "9", "x", "1", "0", "x", "1", "1">> }

ShapeTexts == SeqsUpTo(ShapeChars, MaxShapeText) \cup ShapeExamples

\* The texts given to parseTensor: every text of up to MaxJsonText characters
\* over brackets, a comma and a digit, and longer examples (regular and
\* ragged arrays, nesting of depth 4 and 9, values that are no arrays,
\* spaces, and texts that are no JSON).
JsonChars == {"[", "]", ",", "1"}

JsonExamples ==
    { <<"[", "[", "1", ",", " ", "2", "]", ",", " ", "[", "3", ",", " ", "4", "]", "]">>,
      <<"[", "[", "1", "]", ",", "[", "2", ",", "3", "]", "]">>,
      <<"[", "1", ",", "[", "2", ",", "3", "]", "]">>,
      <<"[", "[", "1", ",", "2", "]", ",", "3", "]">>,
      <<"[", "[", "[", "[", "]", "]", "]", "]">>,
      <<"[", "[", "[", "[", "1", ",", "2", "]", "]", "]", "]">>,
      <<"[", "[", "[", "[", "[", "[", "[", "[", "[", "1", "]", "]", "]", "]", "]", "]", "]", "]", "]">>,
      <<"[", "\"", "a", "\"", ",", "1", "]">>,
      <<"[", "[", "\"", "a", "\"", "]", "]">>,
      <<"[", "{", "}", "]">>,
      <<"{", "}">>,
      <<"\"", "a", "\"">>,
      <<" ", "[", " ", "]", " ">>,
      <<"[", "0", "1", "]">>,
      <<"[", "1", " ", "2", "]">>,
      <<"[", "[", "1", ",", "2", "]", ",", "[", "3", ",", "4", "]">>,
      <<" ", " ">> }

\* JSON.stringify for a value built of arrays and non-negative integers
RECURSIVE Stringify(_)
RECURSIVE StringifyItems(_, _)
Stringify(node) ==
    IF IsArray(node) THEN <<"[">> \o StringifyItems(node.items, 1) \o <<"]">>
    ELSE NumberToString(node.num)
StringifyItems(items, k) ==
    IF k > Len(items) THEN <<>>
    ELSE (IF k > 1 THEN <<",">> ELSE <<>>) \o Stringify(items[k])
             \o StringifyItems(items, k + 1)

\* The values of nesting depth up to d whose arrays have at most 2 elements
\* and whose numbers are 1
RECURSIVE NodesUpTo(_)
NodesUpTo(d) ==
    IF d = 0 THEN {Num(1)}
    ELSE LET inner == NodesUpTo(d - 1)
         IN  inner \cup {Arr(items) : items \in SeqsUpTo(inner, 2)}

\* Values whose JSON text parseTensor is given: a number, and regular, ragged
\* and empty arrays
JsonNodes ==
    NodesUpTo(2) \cup
        { Num(12),
          Arr(<<NumArr(<<1, 2>>), NumArr(<<3, 4>>)>>),
          Arr(<<NumArr(<<1>>), NumArr(<<2, 3>>)>>),
          Arr(<<Num(1), NumArr(<<2, 3>>)>>),
          Arr(<<Arr(<<Arr(<<NumArr(<<10, 2>>)>>)>>)>>),
          NumArr(<<3, 2, 1>>) }

JsonTexts ==
    SeqsUpTo(JsonChars, MaxJsonText) \cup JsonExamples
        \cup {Stringify(n) : n \in JsonNodes}

\* maxCellsPerDim: 0 and 1 (below 2), and the caps that do and do not downsample
CapChoices == 0..MaxDim

\* The values of the TensorGrid model that stand for null: no instanceId, no
\* hovered instance, no mesh, no pointer event
NullId == -1
NoHover == [current |-> FALSE, index |-> NullId]
NoMesh == [capacity |-> 0, count |-> 0, placed |-> 0, colors |-> <<>>]
NoEvent == [kind |-> "none", id |-> NullId]

NoAxisLabels ==
    [x |-> [primary |-> <<>>, tiled |-> <<>>],
     y |-> [primary |-> <<>>, tiled |-> <<>>],
     z |-> [primary |-> <<>>, tiled |-> <<>>]]

NoConfig ==
    [shape |-> <<>>, spatialDims |-> <<Null, Null, Null>>, outerDims |-> <<>>,
     mode |-> "tiling", sliceIndices |-> NoSlices, maxCellsPerDim |-> 0,
     data |-> Undefined]

(***************************************************************************)
(* Specifications: each Init draws the arguments of one function, and the  *)
(* action applies the function.                                            *)
(***************************************************************************)
\* The variables a specification does not use
NoSample == size = 0 /\ maxCells = 0 /\ indices = <<>>
NoValue == data = Undefined /\ indexPath = <<>> /\ value = Undefined
NoLayout == config = NoConfig /\ instances = <<>>
NoCalls == heap = <<>> /\ calls = <<>>
NoText == shapeStr = <<>> /\ dataStr = <<>> /\ shape = <<>> /\ tensorData = NoTensor
NoApp == mode = "tiling" /\ dimOrder = "first-to-last" /\ sliceIndices = NoSlices
NoLabels == labelsStr = <<>> /\ axisLabels = NoAxisLabels
NoGrid ==
    /\ colorMode = "uniform" /\ cubeColor = "" /\ hovered = NoHover
    /\ dirty = FALSE
    /\ layoutLen = 0 /\ colorModeRef = "uniform" /\ baseColorRef = ""
    /\ maxCountRef = 0 /\ maxCount = 0 /\ mesh = NoMesh
    /\ prevHoveredRef = NullId /\ pendingPointerRef = NullId
    /\ pointerOutPendingRef = FALSE /\ effectPending = FALSE
    /\ pointer = NoEvent /\ interval = "quiet" /\ frameHovers = <<>>
    /\ inputSinceMove = FALSE
NoView == NoLabels /\ NoGrid

\* The arguments of the repository's test of getSampledIndices, and sizes and
\* caps beyond the bounds at which i * step falls on a half (62 cells sampled
\* to 15 is within the Max Cells slider's range 2..20)
SampleExamples == {<<5, 8>>, <<10, 4>>, <<100, 5>>, <<62, 15>>, <<35, 29>>}

InitSample ==
    /\ pc = "sample"
    /\ \E args \in ((0..MaxSize) \X (0..MaxCap)) \cup SampleExamples :
          size = args[1] /\ maxCells = args[2]
    /\ indices = <<>>
    /\ NoValue /\ NoLayout /\ NoCalls /\ NoText /\ NoApp /\ NoView

Sample ==
    /\ pc = "sample"
    /\ indices' = getSampledIndices(size, maxCells)
    /\ pc' = "done"
    /\ UNCHANGED <<size, maxCells, valueVars, layoutVars, callVars, textVars, appVars, viewVars>>

SpecSample == InitSample /\ [][Sample]_vars

InitValue ==
    /\ pc = "value"
    /\ data \in DataSamples
    /\ indexPath \in PathSamples
    /\ value = Undefined
    /\ NoSample /\ NoLayout /\ NoCalls /\ NoText /\ NoApp /\ NoView

GetValue ==
    /\ pc = "value"
    /\ value' = getValue(data, indexPath)
    /\ pc' = "done"
    /\ UNCHANGED <<sampleVars, data, indexPath, layoutVars, callVars, textVars, appVars, viewVars>>

SpecValue == InitValue /\ [][GetValue]_vars

InitLayout ==
    /\ pc = "layout"
    /\ \E sh \in Shapes, m \in {"tiling", "slicing"}, cap \in CapChoices :
       \E ss \in SlotAndSliceChoices(Len(sh)) :
          config = [shape |-> sh, spatialDims |-> ss[1],
                    outerDims |-> Remaining(Len(sh), ss[1], 0), mode |-> m,
                    sliceIndices |-> ss[2], maxCellsPerDim |-> cap, data |-> Undefined]
    /\ instances = <<>>
    /\ NoSample /\ NoValue /\ NoCalls /\ NoText /\ NoApp /\ NoView

ComputeLayout ==
    /\ pc = "layout"
    /\ IF Raises(config)
       THEN instances' = instances /\ pc' = "threw"
       ELSE instances' = computeLayout(config) /\ pc' = "done"
    /\ UNCHANGED <<sampleVars, valueVars, config, callVars, textVars, appVars, viewVars>>

SpecLayout == InitLayout /\ [][ComputeLayout]_vars

\* computeLayout with data: the shapes are those whose index paths the data
\* samples can answer (rank up to MaxPathLen, indices up to MaxIndex), the
\* data need not have the shape.
LayoutData == DataSamples \cup {NumArr(<<1, 2, 3>>)}

DataShapes ==
    {sh \in Shapes : Len(sh) <= MaxPathLen /\ \A k \in 1..Len(sh) : sh[k] <= MaxIndex + 1}

InitData ==
    /\ pc = "layout"
    /\ \E sh \in DataShapes, m \in {"tiling", "slicing"}, cap \in CapChoices,
          order \in {"first-to-last", "last-to-first"}, d \in LayoutData :
          LET sd == effectiveSpatialDims(order, Len(sh))
          IN  config = [shape |-> sh, spatialDims |-> sd,
                        outerDims |-> Remaining(Len(sh), sd, 0), mode |-> m,
                        sliceIndices |-> NoSlices, maxCellsPerDim |-> cap, data |-> d]
    /\ instances = <<>>
    /\ NoSample /\ NoValue /\ NoCalls /\ NoText /\ NoApp /\ NoView

SpecData == InitData /\ [][ComputeLayout]_vars

InitShape ==
    /\ pc = "parseShape"
    /\ shapeStr \in ShapeTexts
    /\ dataStr = <<>> /\ shape = <<>> /\ tensorData = NoTensor
    /\ NoSample /\ NoValue /\ NoLayout /\ NoCalls /\ NoApp /\ NoView

ParseShape ==
    /\ pc = "parseShape"
    /\ shape' = parseShape(shapeStr)
    /\ pc' = "done"
    /\ UNCHANGED <<sampleVars, valueVars, layoutVars, callVars, shapeStr, dataStr,
                   tensorData, appVars, viewVars>>

SpecShape == InitShape /\ [][ParseShape]_vars

InitTensor ==
    /\ pc = "parseTensor"
    /\ dataStr \in JsonTexts
    /\ shapeStr = <<>> /\ shape = <<>> /\ tensorData = NoTensor
    /\ NoSample /\ NoValue /\ NoLayout /\ NoCalls /\ NoApp /\ NoView

ParseTensor ==
    /\ pc = "parseTensor"
    /\ tensorData' = parseTensor(dataStr)
    /\ pc' = "done"
    /\ UNCHANGED <<sampleVars, valueVars, layoutVars, callVars, shapeStr, dataStr,
                   shape, appVars, viewVars>>

SpecTensor == InitTensor /\ [][ParseTensor]_vars

\* computeLayout with configurations that break the caller's invariants: the
\* shape is parsed from a text (some texts hold no positive integer), a slot
\* is null, a dimension or the index one past the last dimension, two slots
\* may hold the same dimension, outerDims is any list of up to 2 such
\* indices, and the slice selection is empty or out of bounds.
LooseTexts ==
    { <<>>,
      <<"x">>,
      <<"0">>,
      <<"0", ",", "0">>,
      <<"2">>,
      <<"3">>,
      <<"2", ",", "2">>,
      <<"1", ",", "3">>,
      <<"2", ",", "1", ",", "2">> }

LooseSlots(rank) == [1..3 -> {Null} \cup 0..rank]

LooseOuterDims(rank) == SeqsUpTo(0..rank, 2)

LooseSlices == {NoSlices, [d \in 0..(MaxRank - 1) |-> MaxDim - 2 * d]}

LooseCaps == {2, MaxDim}

InitLoose ==
    /\ pc = "layout"
    /\ shapeStr \in LooseTexts
    /\ shape = parseShape(shapeStr)
    /\ dataStr = <<>> /\ tensorData = NoTensor
    /\ \E sd \in LooseSlots(Len(shape)), od \in LooseOuterDims(Len(shape)),
          m \in {"tiling", "slicing"}, sl \in LooseSlices, cap \in LooseCaps,
          d \in {Undefined, NumArr(<<1, 2>>)} :
          config = [shape |-> shape, spatialDims |-> sd, outerDims |-> od, mode |-> m,
                    sliceIndices |-> sl, maxCellsPerDim |-> cap, data |-> d]
    /\ instances = <<>>
    /\ NoSample /\ NoValue /\ NoCalls /\ NoApp /\ NoView

SpecLoose == InitLoose /\ [][ComputeLayout]_vars

\* The configurations of the caller: an empty shape, a matrix with and
\* without data, a downsampled vector, and a sliced rank-4 shape
CallConfigs ==
    { NoConfig,
      [shape |-> <<2, 2>>, spatialDims |-> <<1, 0, Null>>, outerDims |-> <<>>,
       mode |-> "tiling", sliceIndices |-> NoSlices, maxCellsPerDim |-> 8,
       data |-> Arr(<<NumArr(<<1, 2>>), NumArr(<<3, 4>>)>>)],
      [shape |-> <<2, 2>>, spatialDims |-> <<1, 0, Null>>, outerDims |-> <<>>,
       mode |-> "tiling", sliceIndices |-> NoSlices, maxCellsPerDim |-> 8,
       data |-> Undefined],
      [shape |-> <<3>>, spatialDims |-> <<Null, 0, Null>>, outerDims |-> <<>>,
       mode |-> "tiling", sliceIndices |-> NoSlices, maxCellsPerDim |-> 2,
       data |-> Undefined],
      [shape |-> <<2, 1, 2, 2>>, spatialDims |-> <<1, 0, 2>>, outerDims |-> <<3>>,
       mode |-> "slicing", sliceIndices |-> [d \in {3} |-> 1], maxCellsPerDim |-> 8,
       data |-> Undefined] }

InitCalls ==
    /\ pc = "caller"
    /\ config \in CallConfigs
    /\ instances = <<>>
    /\ heap = <<>>
    /\ calls = <<>>
    /\ NoSample /\ NoValue /\ NoText /\ NoApp /\ NoView

\* The caller calls computeLayout(config) and keeps the returned array.
CallComputeLayout ==
    /\ pc = "caller"
    /\ Len(calls) < MaxCalls
    /\ LET ref == ReturnedRef(config, heap)
           contents == ReturnedContents(config, heap)
       IN  /\ heap' = Store(heap, ref, contents)
           /\ calls' = Append(calls, [config |-> config, ref |-> ref, result |-> contents])
           /\ instances' = contents
    /\ UNCHANGED <<pc, config, sampleVars, valueVars, textVars, appVars, viewVars>>

\* The caller passes another configuration to the next call.
SetConfig ==
    /\ pc = "caller"
    /\ \E c \in CallConfigs : c # config /\ config' = c
    /\ UNCHANGED <<pc, instances, heap, calls, sampleVars, valueVars, textVars, appVars, viewVars>>

\* The caller empties an array it was returned (list.length = 0).
ClearReturned ==
    /\ pc = "caller"
    /\ \E ref \in 1..Len(heap) :
          /\ heap[ref] # <<>>
          /\ heap' = [heap EXCEPT ![ref] = <<>>]
    /\ UNCHANGED <<pc, config, instances, calls, sampleVars, valueVars, textVars, appVars, viewVars>>

\* The caller overwrites the positions of an array it was returned.
MoveReturned ==
    /\ pc = "caller"
    /\ \E ref \in 1..Len(heap) :
          LET moved == [k \in 1..Len(heap[ref]) |->
                           [heap[ref][k] EXCEPT !.position = <<7, 7, 7>>]]
          IN  /\ heap[ref] # moved
              /\ heap' = [heap EXCEPT ![ref] = moved]
    /\ UNCHANGED <<pc, config, instances, calls, sampleVars, valueVars, textVars, appVars, viewVars>>

NextCalls == CallComputeLayout \/ SetConfig \/ ClearReturned \/ MoveReturned

SpecCalls == InitCalls /\ [][NextCalls]_vars

\* computeLayout in tiling mode with the outer dimensions in any order:
\* shapes of the highest rank, no slot or one slot bound (to dimension 0),
\* and outerDims any arrangement of the dimensions no slot holds.
TileShapes == {sh \in Shapes : Len(sh) = MaxRank}

TileSlots ==
    {<<Null, Null, Null>>, <<0, Null, Null>>, <<Null, 0, Null>>, <<Null, Null, 0>>}

Arrangements(s) ==
    {p \in [1..Len(s) -> Range(s)] : \A a, b \in 1..Len(s) : a # b => p[a] # p[b]}

InitTiles ==
    /\ pc = "layout"
    /\ \E sh \in TileShapes, sd \in TileSlots, cap \in {2, MaxDim} :
       \E od \in Arrangements(Remaining(Len(sh), sd, 0)) :
          config = [shape |-> sh, spatialDims |-> sd, outerDims |-> od, mode |-> "tiling",
                    sliceIndices |-> NoSlices, maxCellsPerDim |-> cap, data |-> Undefined]
    /\ instances = <<>>
    /\ NoSample /\ NoValue /\ NoCalls /\ NoText /\ NoApp /\ NoView

SpecTiles == InitTiles /\ [][ComputeLayout]_vars

\* A caller that lays the same tensor out again after changing nothing but
\* sliceIndices (the App after handleSetSliceIndex, or with entries left over
\* from an earlier shape): shapes of rank 3 and more, the App's first-to-last
\* slots or only X bound, and a selection that is empty, has entries for
\* dimensions 0 and 1 only, or has an entry for every dimension.
SliceShapes == {sh \in Shapes : Len(sh) >= 3}

SliceSlots(rank) == {effectiveSpatialDims("first-to-last", rank), <<0, Null, Null>>}

SliceChoices ==
    { NoSlices,
      [d \in {0, 1} |-> 1],
      [d \in 0..(MaxRank - 1) |-> MaxDim - d] }

InitSlices ==
    /\ pc = "slices"
    /\ \E sh \in SliceShapes, m \in {"tiling", "slicing"}, sl \in SliceChoices :
       \E sd \in SliceSlots(Len(sh)) :
          config = [shape |-> sh, spatialDims |-> sd,
                    outerDims |-> Remaining(Len(sh), sd, 0), mode |-> m,
                    sliceIndices |-> sl, maxCellsPerDim |-> MaxDim, data |-> Undefined]
    /\ instances = <<>>
    /\ heap = <<>>
    /\ calls = <<>>
    /\ NoSample /\ NoValue /\ NoText /\ NoApp /\ NoView

\* The caller replaces sliceIndices and keeps every other field.
SetSliceIndices ==
    /\ pc = "slices"
    /\ \E sl \in SliceChoices :
          /\ sl # config.sliceIndices
          /\ config' = [config EXCEPT !.sliceIndices = sl]
    /\ UNCHANGED <<pc, instances, heap, calls, sampleVars, valueVars, textVars, appVars, viewVars>>

\* The caller calls computeLayout(config) and keeps the result.
LayoutAgain ==
    /\ pc = "slices"
    /\ Len(calls) < MaxCalls
    /\ instances' = computeLayout(config)
    /\ calls' = Append(calls, [config |-> config, ref |-> 0, result |-> instances'])
    /\ UNCHANGED <<pc, config, heap, sampleVars, valueVars, textVars, appVars, viewVars>>

NextSlices == SetSliceIndices \/ LayoutAgain

SpecSlices == InitSlices /\ [][NextSlices]_vars

\* Configurations for the positions and the order of the instances: shapes
\* of rank 1 to 3 with every assignment of the slots, both modes, a cap that
\* samples and one that does not; and the repository's test of a 1D layout,
\* shape [10] bound to X with cap 10.
TestSize == 10

PlaceShapes == {sh \in Shapes : Len(sh) >= 1 /\ Len(sh) <= 3}

TestConfig1D ==
    [shape |-> <<TestSize>>, spatialDims |-> <<0, Null, Null>>, outerDims |-> <<>>,
     mode |-> "tiling", sliceIndices |-> NoSlices, maxCellsPerDim |-> TestSize,
     data |-> Undefined]

InitPlace ==
    /\ pc = "layout"
    /\ \/ \E sh \in PlaceShapes, m \in {"tiling", "slicing"}, cap \in {2, MaxDim} :
          \E sd \in SlotChoices(Len(sh)) :
             config = [shape |-> sh, spatialDims |-> sd,
                       outerDims |-> Remaining(Len(sh), sd, 0), mode |-> m,
                       sliceIndices |-> NoSlices, maxCellsPerDim |-> cap,
                       data |-> Undefined]
       \/ config = TestConfig1D
    /\ instances = <<>>
    /\ NoSample /\ NoValue /\ NoCalls /\ NoText /\ NoApp /\ NoView

SpecPlace == InitPlace /\ [][ComputeLayout]_vars

(***************************************************************************)
(* The App: the texts and settings the user edits, and the shape, the      *)
(* configuration and the layout derived from them at every render          *)
(***************************************************************************)
\* useState('2, 3, 4, 5')
InitialShapeText == <<"2", ",", " ", "3", ",", " ", "4", ",", " ", "5">>

\* The shape texts the user types: no digits, a matrix, a zero, and nine runs
AppShapeTexts ==
    { InitialShapeText,
      <<>>,
      <<"x">>,
      <<"2", ",", "2">>,
      <<"0", ",", "3">>,
      <<"1", ",", "1", ",", "1", ",", "1", ",", "1", ",", "1", ",", "1", ",", "1", ",", "2">> }

\* The data texts the user pastes: none, a space, no JSON, an empty innermost
\* level, a matrix, rank 4, and nesting of depth 9
AppDataTexts ==
    { <<>>,
      <<" ">>,
      <<"[", "1", ",">>,
      <<"[", "[", "[", "[", "]", "]", "]", "]">>,
      <<"[", "[", "1", ",", "2", "]", ",", "[", "3", ",", "4", "]", "]">>,
      <<"[", "[", "[", "[", "1", ",", "2", "]", "]", "]", "]">>,
      <<"[", "[", "[", "[", "[", "[", "[", "[", "[", "1", "]", "]", "]", "]", "]", "]", "]", "]", "]">> }

\* The values of the Max Cells / Dim slider that are used: its minimum and
\* the initial value
AppMaxCells == {2, 8}

\* !dataStr.trim()
IsBlank(str) == \A k \in 1..Len(str) : str[k] = " "

\* tensorData: parseTensor(dataStr), or null for a blank text
TensorOf(dStr) == IF IsBlank(dStr) THEN NoTensor ELSE parseTensor(dStr)

\* A shape taken from the shape text whenever the text holds one.
ShapeOfTextFirst(sStr, td) ==
    IF parseShape(sStr) # <<>> \/ ~td.ok THEN parseShape(sStr) ELSE td.shape

\* shape: tensorData.shape when there is data, parseShape(shapeStr) otherwise
ShapeOf(sStr, td) == IF td.ok THEN td.shape ELSE parseShape(sStr)

validSpatialDims(order, sh) ==
    [a \in 1..3 |->
        LET d == effectiveSpatialDims(order, Len(sh))[a]
        IN  IF d # Null /\ d >= 0 /\ d < Len(sh) THEN d ELSE Null]

\* The argument of computeLayout in the layout memo
ConfigOf(sStr, dStr, m, order, slices, cap) ==
    LET td == TensorOf(dStr)
        sh == ShapeOf(sStr, td)
        sd == validSpatialDims(order, sh)
    IN  [shape |-> sh, spatialDims |-> sd, outerDims |-> Remaining(Len(sh), sd, 0),
         mode |-> m, sliceIndices |-> slices, maxCellsPerDim |-> cap,
         data |-> IF td.ok THEN td.data ELSE Undefined]

\* The render that follows a state change: the memos are computed again
Render ==
    /\ tensorData' = TensorOf(dataStr')
    /\ shape' = ShapeOf(shapeStr', tensorData')
    /\ config' = ConfigOf(shapeStr', dataStr', mode', dimOrder', sliceIndices', maxCells')
    /\ instances' = computeLayout(config')

InitApp ==
    /\ pc = "app"
    /\ shapeStr = InitialShapeText
    /\ dataStr = <<>>
    /\ maxCells = 8
    /\ mode = "tiling"
    /\ dimOrder = "first-to-last"
    /\ sliceIndices = NoSlices
    /\ tensorData = TensorOf(dataStr)
    /\ shape = ShapeOf(shapeStr, tensorData)
    /\ config = ConfigOf(shapeStr, dataStr, mode, dimOrder, sliceIndices, maxCells)
    /\ instances = computeLayout(config)
    /\ size = 0 /\ indices = <<>> /\ NoValue /\ NoCalls /\ NoView

\* handleSetShapeStr: the shape text changes and the slice selection is reset
HandleSetShapeStr ==
    /\ pc = "app"
    /\ \E s \in AppShapeTexts : s # shapeStr /\ shapeStr' = s
    /\ sliceIndices' = NoSlices
    /\ UNCHANGED <<pc, dataStr, maxCells, mode, dimOrder>>
    /\ Render
    /\ UNCHANGED <<size, indices, valueVars, callVars, viewVars>>

SetDataStr ==
    /\ pc = "app"
    /\ \E s \in AppDataTexts : s # dataStr /\ dataStr' = s
    /\ UNCHANGED <<pc, shapeStr, maxCells, mode, dimOrder, sliceIndices>>
    /\ Render
    /\ UNCHANGED <<size, indices, valueVars, callVars, viewVars>>

SetMaxCells ==
    /\ pc = "app"
    /\ \E n \in AppMaxCells : n # maxCells /\ maxCells' = n
    /\ UNCHANGED <<pc, shapeStr, dataStr, mode, dimOrder, sliceIndices>>
    /\ Render
    /\ UNCHANGED <<size, indices, valueVars, callVars, viewVars>>

SetMode ==
    /\ pc = "app"
    /\ \E m \in {"tiling", "slicing"} : m # mode /\ mode' = m
    /\ UNCHANGED <<pc, shapeStr, dataStr, maxCells, dimOrder, sliceIndices>>
    /\ Render
    /\ UNCHANGED <<size, indices, valueVars, callVars, viewVars>>

SetDimOrder ==
    /\ pc = "app"
    /\ \E o \in {"first-to-last", "last-to-first"} : o # dimOrder /\ dimOrder' = o
    /\ UNCHANGED <<pc, shapeStr, dataStr, maxCells, mode, sliceIndices>>
    /\ Render
    /\ UNCHANGED <<size, indices, valueVars, callVars, viewVars>>

\* handleSetSliceIndex, called by the slider of an outer dimension: sliders
\* are shown in slicing mode and run from 0 to max(0, shape[dim] - 1)
HandleSetSliceIndex ==
    /\ pc = "app"
    /\ mode = "slicing"
    /\ \E j \in 1..Len(config.outerDims) :
          LET dim == config.outerDims[j]
          IN  \E idx \in 0..Max(0, shape[dim + 1] - 1) :
                  /\ idx # SliceOrZero(config, dim)
                  /\ sliceIndices' =
                         [d \in DOMAIN sliceIndices \cup {dim} |->
                             IF d = dim THEN idx ELSE sliceIndices[d]]
    /\ UNCHANGED <<pc, shapeStr, dataStr, maxCells, mode, dimOrder>>
    /\ Render
    /\ UNCHANGED <<size, indices, valueVars, callVars, viewVars>>

NextApp ==
    \/ HandleSetShapeStr
    \/ SetDataStr
    \/ SetMaxCells
    \/ SetMode
    \/ SetDimOrder
    \/ HandleSetSliceIndex

SpecApp == InitApp /\ [][NextApp]_vars

\* The roles the App derives from a shape and a dimension order
\* (validSpatialDims and outerDims), for every shape of rank 0 to MaxN with
\* sizes 1 and MaxDim.
RoleShapes == SeqsUpTo({1, MaxDim}, MaxN)

InitRoles ==
    /\ pc = "roles"
    /\ shape \in RoleShapes
    /\ dimOrder \in {"first-to-last", "last-to-first"}
    /\ shapeStr = <<>> /\ dataStr = <<>> /\ tensorData = NoTensor
    /\ mode = "tiling" /\ sliceIndices = NoSlices
    /\ NoSample /\ NoValue /\ NoLayout /\ NoCalls /\ NoView

AssignRoles ==
    /\ pc = "roles"
    /\ config' = [NoConfig EXCEPT
                     !.shape = shape,
                     !.spatialDims = validSpatialDims(dimOrder, shape),
                     !.outerDims = Remaining(Len(shape), validSpatialDims(dimOrder, shape), 0)]
    /\ pc' = "done"
    /\ UNCHANGED <<sampleVars, valueVars, instances, callVars, textVars, appVars, viewVars>>

SpecRoles == InitRoles /\ [][AssignRoles]_vars

(***************************************************************************)
(* The App: the labels of the coordinate triad (axisLabels)                *)
(***************************************************************************)
\* String.prototype.split with a one-character separator
RECURSIVE SplitFrom(_, _, _, _)
SplitFrom(str, sep, k, current) ==
    IF k > Len(str) THEN <<current>>
    ELSE IF str[k] = sep THEN <<current>> \o SplitFrom(str, sep, k + 1, <<>>)
    ELSE SplitFrom(str, sep, k + 1, Append(current, str[k]))

Split(str, sep) == SplitFrom(str, sep, 1, <<>>)

\* String.prototype.trim (the texts hold no white space but the space)
RECURSIVE Trim(_)
Trim(str) ==
    IF Len(str) = 0 THEN str
    ELSE IF str[1] = " " THEN Trim(Tail(str))
    ELSE IF str[Len(str)] = " " THEN Trim(SubSeq(str, 1, Len(str) - 1))
    ELSE str

\* labels: labelsStr.split(',').map(s => s.trim()).filter(Boolean)
LabelsOf(str) ==
    LET parts == Split(str, ",")
    IN  SelectSeq([k \in 1..Len(parts) |-> Trim(parts[k])], LAMBDA t : Len(t) > 0)

\* labels[dim] || `d${dim}`
DimLabel(labels, dim) ==
    IF dim >= 0 /\ dim < Len(labels) THEN labels[dim + 1]
    ELSE <<"d">> \o NumberToString(dim)

getLabel(labels, dimIdx, fallback) ==
    IF dimIdx = Null THEN fallback ELSE DimLabel(labels, dimIdx)

\* A tile cycle in slot order: X first, then Y, then Z.
TiledListInSlotOrder(axisIdx) == IF axisIdx = 0 THEN "x" ELSE IF axisIdx = 1 THEN "y" ELSE "z"

\* The list a label is pushed to: tiledY for axisIdx 0, tiledX for 1, else tiledZ
TiledList(axisIdx) == IF axisIdx = 0 THEN "y" ELSE IF axisIdx = 1 THEN "x" ELSE "z"

\* outerDims.forEach((dim, i) => ...): the labels pushed to one list
RECURSIVE TiledLoop(_, _, _, _)
TiledLoop(labels, outer, list, i) ==
    IF i >= Len(outer) THEN <<>>
    ELSE (IF TiledList(i % 3) = list THEN <<DimLabel(labels, outer[i + 1])>> ELSE <<>>)
             \o TiledLoop(labels, outer, list, i + 1)

Tiled(labels, outer, md, list) ==
    IF md = "tiling" THEN TiledLoop(labels, outer, list, 0) ELSE <<>>

axisLabelsOf(labels, sd, outer, md) ==
    [x |-> [primary |-> getLabel(labels, sd[1], <<"X">>), tiled |-> Tiled(labels, outer, md, "x")],
     y |-> [primary |-> getLabel(labels, sd[2], <<"Y">>), tiled |-> Tiled(labels, outer, md, "y")],
     z |-> [primary |-> getLabel(labels, sd[3], <<"Z">>), tiled |-> Tiled(labels, outer, md, "z")]]

\* useState('B, C, H, W')
InitialLabelsText == <<"B", ",", " ", "C", ",", " ", "H", ",", " ", "W">>

\* The labels texts: the initial one, none, and one with spaces and an empty
\* field
LabelTexts == {InitialLabelsText, <<>>, <<" ", "a", " ", ",", ",", "b">>}

\* One render of the App for a shape, a dimension order, a mode and a labels
\* text: the configuration given to computeLayout and the axis labels given
\* to the triad.
InitLabels ==
    /\ pc = "labels"
    /\ shape \in RoleShapes
    /\ dimOrder \in {"first-to-last", "last-to-first"}
    /\ mode \in {"tiling", "slicing"}
    /\ labelsStr \in LabelTexts
    /\ axisLabels = NoAxisLabels
    /\ maxCells = 8
    /\ shapeStr = <<>> /\ dataStr = <<>> /\ tensorData = NoTensor
    /\ sliceIndices = NoSlices
    /\ size = 0 /\ indices = <<>> /\ NoValue /\ NoLayout /\ NoCalls /\ NoGrid

RenderLabels ==
    /\ pc = "labels"
    /\ config' = [shape |-> shape, spatialDims |-> validSpatialDims(dimOrder, shape),
                  outerDims |-> Remaining(Len(shape), validSpatialDims(dimOrder, shape), 0),
                  mode |-> mode, sliceIndices |-> sliceIndices,
                  maxCellsPerDim |-> maxCells, data |-> Undefined]
    /\ axisLabels' = axisLabelsOf(LabelsOf(labelsStr), config'.spatialDims,
                                  config'.outerDims, mode)
    /\ pc' = "done"
    /\ UNCHANGED <<sampleVars, valueVars, instances, callVars, textVars, appVars, labelsStr,
                   gridVars>>

SpecLabels == InitLabels /\ [][RenderLabels]_vars

(***************************************************************************)
(* TensorGrid: the instanced mesh, the hover highlight and the frame loop, *)
(* with the renders of the App that give the component its props.          *)
(*                                                                         *)
(*  - the layout prop is held by its length; its identity is held          *)
(*    relatively: `current` of a BoxInstance tells whether it is an        *)
(*    element of the array that is the layout prop now.                    *)
(*  - a mesh is [capacity, count, placed, colors]: the count it was        *)
(*    constructed with, mesh.count, the number of instances whose matrix   *)
(*    has been set, and the colour of every instance.                      *)
(*  - a handler, a frame callback, a render with its commit, and the       *)
(*    layout effect each run to completion; the effect of a commit runs    *)
(*    before the next render.                                              *)
(***************************************************************************)
HOVER_COLOR == "#818cf8"
White == "#ffffff"
Unset == "unset"        \* the colour of an instance no setColorAt has written

\* The cube colours the colour input is set to: a grey, and the hover colour
CubeColors == {"#3f3f46", HOVER_COLOR}

InitialMaxCount == 512  \* useRef(512)
InitialLength == 120    \* the cells of the initial shape 2, 3, 4, 5
SmallLength == 2

\* The lengths of the layouts the inputs give: none, few cells, the initial
\* layout, and more cells than the initial capacity
LayoutLengths == {0, SmallLength, InitialLength, InitialMaxCount + 1}

\* The instances the pointer is moved over (when the mesh has them)
PointerIds == {0, 5}

otherVars == <<pc, sampleVars, valueVars, layoutVars, callVars, textVars, appVars, labelVars>>

\* new InstancedMesh(geometry, material, count)
NewMesh(count) ==
    [capacity |-> count, count |-> count, placed |-> 0,
     colors |-> [i \in 0..(count - 1) |-> Unset]]

\* layoutRef.current[instanceId] ?? null
InstanceAt(instanceId, len) ==
    IF instanceId >= 0 /\ instanceId < len THEN [current |-> TRUE, index |-> instanceId]
    ELSE NoHover

\* A capacity computed from the length alone: Math.max(layout.length, 512).
maxCountOfLength(ref, len) == Max(len, InitialMaxCount)

\* maxCountRef.current = Math.max(maxCountRef.current, layout.length)
maxCountOf(ref, len) == Max(ref, len)

\* The restore colour of setHoverHighlight
RestoreColor == IF colorModeRef = "axis" THEN White ELSE baseColorRef

\* A highlight that leaves the colour of the previous instance as it is.
setHoverHighlightKeepingPrev(m, prev, instanceId, restore) ==
    IF m.capacity = 0 \/ prev = instanceId THEN [mesh |-> m, prevHoveredRef |-> prev]
    ELSE [mesh |-> [m EXCEPT !.colors =
                        IF instanceId # NullId /\ instanceId < m.count
                        THEN [m.colors EXCEPT ![instanceId] = HOVER_COLOR]
                        ELSE m.colors],
          prevHoveredRef |-> instanceId]

\* setHoverHighlight(instanceId): the mesh and prevHoveredRef.current after it
setHoverHighlight(m, prev, instanceId, restore) ==
    IF m.capacity = 0 \/ prev = instanceId THEN [mesh |-> m, prevHoveredRef |-> prev]
    ELSE LET restored == IF prev # NullId /\ prev < m.count
                         THEN [m.colors EXCEPT ![prev] = restore]
                         ELSE m.colors
             marked == IF instanceId # NullId /\ instanceId < m.count
                       THEN [restored EXCEPT ![instanceId] = HOVER_COLOR]
                       ELSE restored
         IN  [mesh |-> [m EXCEPT !.colors = marked], prevHoveredRef |-> instanceId]

\* setHovered(x): React keeps the state and schedules no render when x is
\* the value the state has
setHovered(app, x) == IF x = app.hovered THEN app ELSE [hovered |-> x, dirty |-> TRUE]

\* A frame callback that looks at the pending pointer move first.
useFrameMoveFirst(outPending, pending, len) ==
    IF pending # NullId
    THEN [pointerOutPending |-> outPending, pendingPointer |-> NullId,
          highlights |-> <<pending>>, hovers |-> <<InstanceAt(pending, len)>>]
    ELSE IF outPending
    THEN [pointerOutPending |-> FALSE, pendingPointer |-> NullId,
          highlights |-> <<NullId>>, hovers |-> <<NoHover>>]
    ELSE [pointerOutPending |-> outPending, pendingPointer |-> pending,
          highlights |-> <<>>, hovers |-> <<>>]

\* The useFrame callback: the refs after it, and the arguments of its calls
\* of setHoverHighlight and of onHover, in order
useFrame(outPending, pending, len) ==
    IF outPending
    THEN [pointerOutPending |-> FALSE, pendingPointer |-> NullId,
          highlights |-> <<NullId>>, hovers |-> <<NoHover>>]
    ELSE IF pending = NullId
    THEN [pointerOutPending |-> outPending, pendingPointer |-> pending,
          highlights |-> <<>>, hovers |-> <<>>]
    ELSE [pointerOutPending |-> outPending, pendingPointer |-> NullId,
          highlights |-> <<pending>>, hovers |-> <<InstanceAt(pending, len)>>]

RECURSIVE HighlightAll(_, _, _, _)
HighlightAll(m, prev, ids, restore) ==
    IF ids = <<>> THEN [mesh |-> m, prevHoveredRef |-> prev]
    ELSE LET r == setHoverHighlight(m, prev, Head(ids), restore)
         IN  HighlightAll(r.mesh, r.prevHoveredRef, Tail(ids), restore)

RECURSIVE HoverAll(_, _)
HoverAll(app, xs) ==
    IF xs = <<>> THEN app ELSE HoverAll(setHovered(app, Head(xs)), Tail(xs))

\* Which values are new objects at a render of the App: validSpatialDims is
\* built by map() at every render; outerDims and layout are memoised, with
\* validSpatialDims among the dependencies of both.
validSpatialDimsIsNew == TRUE
outerDimsIsNew(changed) == changed \/ validSpatialDimsIsNew
layoutIsNew(changed) == changed \/ validSpatialDimsIsNew \/ outerDimsIsNew(changed)

\* The state after the first render and commit of the initial App
InitGrid ==
    /\ pc = "grid"
    /\ colorMode \in {"uniform", "axis"}
    /\ cubeColor \in CubeColors
    /\ hovered = NoHover
    /\ dirty = FALSE
    /\ layoutLen = InitialLength
    /\ colorModeRef = colorMode /\ baseColorRef = cubeColor
    /\ maxCountRef = maxCountOf(InitialMaxCount, InitialLength)
    /\ maxCount = maxCountRef
    /\ mesh = NewMesh(maxCount)
    /\ prevHoveredRef = NullId
    /\ pendingPointerRef = NullId /\ pointerOutPendingRef = FALSE
    /\ effectPending = TRUE
    /\ pointer = NoEvent /\ interval = "quiet" /\ frameHovers = <<>>
    /\ inputSinceMove = FALSE
    /\ NoSample /\ NoValue /\ NoLayout /\ NoCalls /\ NoText /\ NoApp /\ NoLabels

\* handlePointerMove, for an instance the raycast can hit
HandlePointerMove ==
    /\ pc = "grid"
    /\ \E id \in PointerIds :
          /\ id < mesh.count /\ id < mesh.placed
          /\ pendingPointerRef' = id
          /\ pointer' = [kind |-> "move", id |-> id]
    /\ pointerOutPendingRef' = FALSE
    /\ interval' = IF interval \in {"out", "outThenMove"} THEN "outThenMove" ELSE "move"
    /\ inputSinceMove' = FALSE
    /\ frameHovers' = <<>>
    /\ UNCHANGED <<otherVars, hoverVars, settingVars, renderVars, meshVars>>

\* handlePointerOut: the pointer leaves the instance it was over
HandlePointerOut ==
    /\ pc = "grid"
    /\ pointer.kind = "move"
    /\ pointerOutPendingRef' = TRUE
    /\ pointer' = [kind |-> "out", id |-> NullId]
    /\ interval' = "out"
    /\ UNCHANGED <<otherVars, hoverVars, settingVars, renderVars, meshVars,
                   pendingPointerRef, inputSinceMove>>
    /\ frameHovers' = <<>>

\* One frame: the useFrame callback
Frame ==
    /\ pc = "grid"
    /\ LET f == useFrame(pointerOutPendingRef, pendingPointerRef, layoutLen)
           h == HighlightAll(mesh, prevHoveredRef, f.highlights, RestoreColor)
           a == HoverAll([hovered |-> hovered, dirty |-> dirty], f.hovers)
       IN  /\ pointerOutPendingRef' = f.pointerOutPending
           /\ pendingPointerRef' = f.pendingPointer
           /\ mesh' = h.mesh
           /\ prevHoveredRef' = h.prevHoveredRef
           /\ hovered' = a.hovered
           /\ dirty' = a.dirty
           /\ frameHovers' = f.hovers
    /\ interval' = "quiet"
    /\ UNCHANGED <<otherVars, settingVars, renderVars, pointer, inputSinceMove>>

\* A render of the App and of TensorGrid with its commit, for the settings
\* given: the layout memo, the refs written while rendering, the maxCount
\* memo, and the mesh, which is unmounted for an empty layout and constructed
\* anew when it is mounted, when its key (colorMode) changes and when its
\* args (maxCount) change.  The effect of the commit before runs first.
RenderGrid(len, newMode, newColor) ==
    /\ ~effectPending
    /\ LET fresh == layoutIsNew(len # layoutLen)
           ref == IF len # layoutLen THEN maxCountOf(maxCountRef, len) ELSE maxCountRef
           count == IF len # layoutLen THEN ref ELSE maxCount
           constructed == mesh.capacity = 0 \/ newMode # colorModeRef \/ count # maxCount
       IN  /\ layoutLen' = (IF fresh THEN len ELSE layoutLen)
           /\ hovered' = IF fresh /\ hovered # NoHover
                         THEN [hovered EXCEPT !.current = FALSE]
                         ELSE hovered
           /\ maxCountRef' = ref
           /\ maxCount' = count
           /\ mesh' = IF len = 0 THEN NoMesh
                      ELSE IF constructed THEN NewMesh(count)
                      ELSE mesh
           /\ effectPending' = (fresh \/ newMode # colorModeRef \/ newColor # baseColorRef)
           /\ pointer' = IF pointer.kind = "move" /\ (len = 0 \/ constructed)
                         THEN [kind |-> "gone", id |-> pointer.id]
                         ELSE pointer
    /\ colorMode' = newMode
    /\ cubeColor' = newColor
    /\ colorModeRef' = newMode
    /\ baseColorRef' = newColor
    /\ frameHovers' = <<>>
    /\ UNCHANGED <<otherVars, prevHoveredRef, pointerVars, interval>>

\* The render React schedules for setHovered
RenderApp ==
    /\ pc = "grid"
    /\ dirty
    /\ RenderGrid(layoutLen, colorMode, cubeColor)
    /\ dirty' = FALSE
    /\ UNCHANGED inputSinceMove

\* The user changes an input of the layout (shape, data, order, newMode, cap or
\* slice index); the change event is rendered before the handler returns
ChangeInput ==
    /\ pc = "grid"
    /\ \E len \in LayoutLengths : RenderGrid(len, colorMode, cubeColor)
    /\ inputSinceMove' = TRUE
    /\ UNCHANGED dirty

SetColorMode ==
    /\ pc = "grid"
    /\ \E newMode \in {"uniform", "axis"} \ {colorMode} : RenderGrid(layoutLen, newMode, cubeColor)
    /\ inputSinceMove' = TRUE
    /\ UNCHANGED dirty

\* The colour input is shown in uniform newMode
SetCubeColor ==
    /\ pc = "grid"
    /\ colorMode = "uniform"
    /\ \E newColor \in CubeColors \ {cubeColor} : RenderGrid(layoutLen, colorMode, newColor)
    /\ inputSinceMove' = TRUE
    /\ UNCHANGED dirty

\* The effect with the dependencies [layout, colorMode, baseColor]
LayoutEffect ==
    /\ pc = "grid"
    /\ effectPending
    /\ effectPending' = FALSE
    /\ IF mesh.capacity = 0 \/ layoutLen = 0
       THEN UNCHANGED meshVars
       ELSE /\ mesh' = [mesh EXCEPT
                           !.count = layoutLen,
                           !.placed = Max(mesh.placed, Min(layoutLen, mesh.capacity)),
                           !.colors = [i \in DOMAIN mesh.colors |->
                                          IF i < layoutLen
                                          THEN (IF colorModeRef = "axis" THEN White
                                                ELSE baseColorRef)
                                          ELSE mesh.colors[i]]]
            /\ prevHoveredRef' = NullId
    /\ UNCHANGED <<otherVars, hoverVars, settingVars, layoutLen, colorModeRef, baseColorRef,
                   maxCountRef, maxCount, pointerVars, pointer, interval, inputSinceMove>>
    /\ frameHovers' = <<>>

NextGrid ==
    \/ HandlePointerMove
    \/ HandlePointerOut
    \/ Frame
    \/ ChangeInput
    \/ SetColorMode
    \/ SetCubeColor
    \/ RenderApp
    \/ LayoutEffect

SpecGrid == InitGrid /\ [][NextGrid]_vars

(***************************************************************************)
(* Reference notions the claims are stated with                            *)
(***************************************************************************)

LayoutDone == pc = "done" /\ Len(config.shape) >= 1

Dims == 0..(Len(config.shape) - 1)
IsOuter(d) == \E k \in 1..Len(config.outerDims) : config.outerDims[k] = d
IsPage(d) == config.mode = "slicing" /\ IsOuter(d)

\* v clamped into lo..hi
Clamped(v, lo, hi) == IF v < lo THEN lo ELSE IF v > hi THEN hi ELSE v

\* The index a page dimension is collapsed to
PageIndex(d) ==
    Clamped(IF d \in DOMAIN config.sliceIndices THEN config.sliceIndices[d] ELSE 0,
            0, config.shape[d + 1] - 1)

\* The sampled index set of dimension d
SampledSet(d) ==
    IF IsPage(d) THEN {PageIndex(d)}
    ELSE Range(getSampledIndices(config.shape[d + 1], config.maxCellsPerDim))

\* The Cartesian product of the sampled index sets of dimensions 0..(n - 1)
RECURSIVE CartesianProduct(_)
CartesianProduct(n) ==
    IF n = 0 THEN {<<>>}
    ELSE {Append(p, x) : p \in CartesianProduct(n - 1), x \in SampledSet(n - 1)}

\* The product of count[d] over the dimensions d of ds
RECURSIVE ProductOfSizes(_, _)
ProductOfSizes(ds, count) ==
    IF ds = {} THEN 1
    ELSE LET d == CHOOSE x \in ds : TRUE
         IN  count[d] * ProductOfSizes(ds \ {d}, count)

SampledCount == [d \in Dims |-> Cardinality(SampledSet(d))]
FullCount ==
    [d \in Dims |-> Len(getSampledIndices(config.shape[d + 1], config.maxCellsPerDim))]

Coords(axis) == {instances[k].position[axis] : k \in 1..Len(instances)}
LowestCoord(axis) == CHOOSE m \in Coords(axis) : \A c \in Coords(axis) : m <= c
HighestCoord(axis) == CHOOSE m \in Coords(axis) : \A c \in Coords(axis) : m >= c

Abs(n) == IF n < 0 THEN 0 - n ELSE n

\* The fields of a string, split at the commas, each read as a decimal number
RECURSIVE ParseId(_, _, _, _)
ParseId(str, k, current, started) ==
    IF k > Len(str) THEN (IF started THEN <<current>> ELSE <<>>)
    ELSE IF str[k] = "," THEN <<current>> \o ParseId(str, k + 1, 0, TRUE)
    ELSE ParseId(str, k + 1, 10 * current + DigitValue(str[k]), TRUE)

(***************************************************************************)
(* Claims                                                                  *)
(***************************************************************************)

\* C1: for a shape of rank >= 1, the indexPaths of the instances computeLayout
\* returns are exactly the members of the Cartesian product of the
\* per-dimension sampled index sets, each member once, so the number of
\* instances is the product of the sampled-set sizes.
C1_CartesianProduct ==
    LayoutDone =>
        /\ {instances[k].indexPath : k \in 1..Len(instances)}
               = CartesianProduct(Len(config.shape))
        /\ \A p \in CartesianProduct(Len(config.shape)) :
               Cardinality({k \in 1..Len(instances) : instances[k].indexPath = p}) = 1
        /\ Len(instances) = ProductOfSizes(Dims, SampledCount)

\* A layout with a downsampled dimension, a page dimension and several cells
C1_Witness ==
    /\ LayoutDone
    /\ config.mode = "slicing"
    /\ \E d \in Dims : IsPage(d) /\ PageIndex(d) >= 1
    /\ \E d \in Dims : ~IsPage(d) /\ config.shape[d + 1] > config.maxCellsPerDim
                         /\ config.maxCellsPerDim >= 2
    /\ Len(instances) >= 3

\* C2: for size > cap >= 2, getSampledIndices(size, cap) contains 0 and
\* size - 1, is strictly ascending, holds only indices in [0, size), and has
\* length at most cap.
C2_SampleEndpoints ==
    (pc = "done" /\ size > maxCells /\ maxCells >= 2) =>
        /\ 0 \in Range(indices)
        /\ (size - 1) \in Range(indices)
        /\ \A k \in 1..(Len(indices) - 1) : indices[k] < indices[k + 1]
        /\ \A k \in 1..Len(indices) : indices[k] >= 0 /\ indices[k] < size
        /\ Len(indices) <= maxCells

\* A downsampled dimension with an inner index that was rounded up from a half
C2_Witness ==
    /\ pc = "done"
    /\ size = 12
    /\ maxCells = 3
    /\ indices = <<0, 6, 11>>

\* C3: in slicing mode every instance has, in every outer dimension d,
\* indexPath[d] equal to sliceIndices[d] (0 when absent) clamped into
\* [0, shape[d] - 1], and the instance count is the product of the
\* sampled-set sizes of the dimensions that are not outer.
C3_SlicingCollapsesOuter ==
    (LayoutDone /\ config.mode = "slicing") =>
        /\ \A k \in 1..Len(instances) : \A d \in Dims :
               IsOuter(d) => instances[k].indexPath[d + 1] = PageIndex(d)
        /\ Len(instances) = ProductOfSizes({d \in Dims : ~IsOuter(d)}, FullCount)

\* Slicing with two outer dimensions, one forced to a non-zero index by a
\* slice value that is too large, and several instances
C3_Witness ==
    /\ LayoutDone
    /\ config.mode = "slicing"
    /\ Len(config.outerDims) >= 2
    /\ \E d \in Dims : /\ IsOuter(d)
                       /\ d \in DOMAIN config.sliceIndices
                       /\ config.sliceIndices[d] >= config.shape[d + 1]
                       /\ PageIndex(d) >= 1
    /\ Len(instances) >= 2
    /\ Len(instances) < ProductOfSizes(Dims, FullCount)

\* C4: in tiling mode no outer dimension is collapsed: every outer dimension
\* shows its full sampled index set and the instance count is the product,
\* over all dimensions, of the length of getSampledIndices(shape[d], cap).
C4_TilingKeepsOuter ==
    (LayoutDone /\ config.mode = "tiling") =>
        /\ \A d \in Dims :
               IsOuter(d) =>
                   {instances[k].indexPath[d + 1] : k \in 1..Len(instances)}
                       = Range(getSampledIndices(config.shape[d + 1], config.maxCellsPerDim))
        /\ Len(instances) = ProductOfSizes(Dims, FullCount)

\* Tiling with three outer dimensions of two cells each
C4_Witness ==
    /\ LayoutDone
    /\ config.mode = "tiling"
    /\ Len(config.outerDims) >= 3
    /\ \A k \in 1..3 : FullCount[config.outerDims[k]] = 2
    /\ Len(instances) = 8

\* The configuration's slots and outerDims partition the dimensions.
IsPartition ==
    /\ \A a, b \in 1..3 :
           a # b /\ config.spatialDims[a] # Null
               => config.spatialDims[a] # config.spatialDims[b]
    /\ \A d \in Dims : IsOuter(d) <=> ~(\E a \in 1..3 : config.spatialDims[a] = d)
    /\ \A j, k \in 1..Len(config.outerDims) :
           j # k => config.outerDims[j] # config.outerDims[k]

\* C5: when the slots and outerDims partition the dimensions, any two
\* distinct instances are at least 1 apart along some axis (positions are
\* doubled, so at least 2).
C5_NoOverlap ==
    (LayoutDone /\ IsPartition) =>
        \A j, k \in 1..Len(instances) :
            j # k => \E axis \in 1..3 :
                Abs(instances[j].position[axis] - instances[k].position[axis]) >= 2

\* Nested tiling: the first and the fourth outer dimension share axis Y and
\* each has two cells or more
C5_Witness ==
    /\ LayoutDone
    /\ IsPartition
    /\ config.mode = "tiling"
    /\ Len(config.outerDims) = 4
    /\ FullCount[config.outerDims[1]] >= 2
    /\ FullCount[config.outerDims[4]] >= 2
    /\ Len(instances) >= 4

\* C6: for a non-empty output, on each axis the minimum and the maximum
\* coordinate over all instances have midpoint 0.
C6_Centered ==
    (pc = "done" /\ Len(instances) > 0) =>
        \A axis \in 1..3 : LowestCoord(axis) + HighestCoord(axis) = 0

\* A layout whose extent is odd on one axis (its centre is a half) and which
\* spreads along a second axis too
C6_Witness ==
    /\ pc = "done"
    /\ \E k \in 1..Len(instances) :
           /\ instances[k].position[1] % 2 = 1
           /\ instances[k].position[2] < 0
           /\ instances[k].position[3] = 0

\* C7: the ids of the instances are pairwise distinct, and each id is the
\* comma-joined indexPath: read back field by field it gives the indexPath,
\* so equal ids mean equal indexPaths.
C7_DistinctIds ==
    LayoutDone =>
        /\ \A j, k \in 1..Len(instances) : j # k => instances[j].id # instances[k].id
        /\ \A k \in 1..Len(instances) :
               ParseId(instances[k].id, 1, 0, FALSE) = instances[k].indexPath

\* Ids with fields of one and of two digits
C7_Witness ==
    /\ LayoutDone
    /\ Len(instances) >= 4
    /\ \E k \in 1..Len(instances) :
           instances[k].id = <<"1", "0", ",", "1", "1">>
    /\ \E k \in 1..Len(instances) :
           instances[k].id = <<"0", ",", "1", "1">>

\* C8: computeLayout is deterministic and keeps no state between calls: two
\* calls with identical configurations, whatever calls and whatever changes
\* to returned arrays lie between them, return lists equal element by
\* element (id, indexPath, position and value).
C8_Deterministic ==
    \A i, j \in 1..Len(calls) :
        calls[i].config = calls[j].config =>
            /\ Len(calls[i].result) = Len(calls[j].result)
            /\ \A k \in 1..Len(calls[i].result) :
                   /\ calls[i].result[k].id = calls[j].result[k].id
                   /\ calls[i].result[k].indexPath = calls[j].result[k].indexPath
                   /\ calls[i].result[k].position = calls[j].result[k].position
                   /\ calls[i].result[k].value = calls[j].result[k].value

\* Two calls with the same configuration around a call with another one
C8_Witness ==
    /\ Len(calls) = 3
    /\ calls[1].config = calls[3].config
    /\ calls[2].config # calls[1].config
    /\ Len(calls[2].result) >= 2
    /\ Len(calls[3].result) >= 4
    /\ calls[3].result[1].value = Num(1)

\* C9: a computeLayout call leaves the configuration as it was, returns an
\* array that did not exist before the call and leaves every array returned
\* earlier as it was; its result is that of an earlier call with the same
\* configuration even when the caller has modified the list returned then.
C9_FrameAndFresh ==
    [][Len(calls') = Len(calls) + 1 =>
          LET this == calls'[Len(calls')]
          IN  /\ config' = config
              /\ this.config = config
              /\ this.ref \notin 1..Len(heap)
              /\ \A ref \in 1..Len(heap) : heap'[ref] = heap[ref]
              /\ heap'[this.ref] = this.result
              /\ \A i \in 1..Len(calls) :
                     (calls[i].config = config /\ heap[calls[i].ref] # calls[i].result)
                         => this.result = calls[i].result]_vars

\* A call made after the list of an earlier call with the same configuration
\* had its positions overwritten
C9_Witness ==
    /\ Len(calls) = 2
    /\ calls[1].config = calls[2].config
    /\ Len(calls[1].result) >= 4
    /\ heap[calls[1].ref] # calls[1].result
    /\ Len(heap[calls[1].ref]) = Len(calls[1].result)
    /\ heap[calls[2].ref] = calls[2].result
    /\ calls[2].config.data # Undefined

\* C10: getValue returns a number exactly when walking data by the indices of
\* indexPath finds, at every step, an array with the index in bounds, and the
\* node reached after the last index is a number; it returns absent otherwise.
RECURSIVE WalkReaches(_, _, _)
WalkReaches(node, path, target) ==
    IF path = <<>> THEN node = target
    ELSE /\ node.tag = "arr"
         /\ Head(path) >= 0
         /\ Head(path) < Len(node.items)
         /\ WalkReaches(node.items[Head(path) + 1], Tail(path), target)

C10_ValueLookup ==
    pc = "done" =>
        /\ value.tag \in {"num", "undef"}
        /\ value.tag = "num" <=>
               (data.tag = "arr" /\ \E n \in 1..7 : WalkReaches(data, indexPath, Num(n)))
        /\ value.tag = "num" => WalkReaches(data, indexPath, value)

\* data [[1,2],[3,4]] gives 3 for path [1,0]
C10_Witness ==
    /\ pc = "done"
    /\ data = Arr(<<NumArr(<<1, 2>>), NumArr(<<3, 4>>)>>)
    /\ indexPath = <<1, 0>>
    /\ value = Num(3)

\* C11: every instance carries the value found by walking data along its own
\* indexPath: a number exactly when data was supplied and a number lies at
\* that index path, and absent on every instance when no data was supplied.
C11_ValueOfInstance ==
    pc = "done" =>
        \A k \in 1..Len(instances) :
            LET inst == instances[k]
            IN  /\ inst.value.tag \in {"num", "undef"}
                /\ inst.value.tag = "num" <=>
                       (config.data.tag = "arr"
                        /\ \E n \in 1..7 : WalkReaches(config.data, inst.indexPath, Num(n)))
                /\ inst.value.tag = "num" =>
                       WalkReaches(config.data, inst.indexPath, inst.value)
                /\ config.data = Undefined => inst.value = Undefined

\* A downsampled dimension whose last cell shows the number at its index, and
\* a layout with data in which one cell has a number and another has none
C11_Witness ==
    /\ pc = "done"
    /\ \/ /\ config.data = NumArr(<<1, 2, 3>>)
          /\ config.maxCellsPerDim = 2
          /\ Len(instances) = 2
          /\ instances[2].indexPath = <<2>>
          /\ instances[2].value = Num(3)
       \/ /\ config.data = Arr(<<NumArr(<<1>>), Other>>)
          /\ Len(instances) = 2
          /\ instances[1].value = Num(1)
          /\ instances[2].value = Undefined

\* The digit runs of shapeStr, told by where they start: a digit with no digit
\* before it.  A run ends at the last digit with no digit after it, and its
\* value is the sum of its digits times their powers of ten.
RunStarts ==
    {k \in 1..Len(shapeStr) :
        shapeStr[k] \in DigitChars /\ (k = 1 \/ shapeStr[k - 1] \notin DigitChars)}

RunEnd(k) ==
    CHOOSE j \in k..Len(shapeStr) :
        /\ \A i \in k..j : shapeStr[i] \in DigitChars
        /\ (j = Len(shapeStr) \/ shapeStr[j + 1] \notin DigitChars)

RECURSIVE Pow10(_)
Pow10(n) == IF n = 0 THEN 1 ELSE 10 * Pow10(n - 1)

RECURSIVE PlaceValueSum(_, _)
PlaceValueSum(i, j) ==
    IF i > j THEN 0
    ELSE DigitValue(shapeStr[i]) * Pow10(j - i) + PlaceValueSum(i + 1, j)

RunValue(k) == PlaceValueSum(k, RunEnd(k))

PositiveRuns == {k \in RunStarts : RunValue(k) > 0}

Unspaced(str) == SelectSeq(str, LAMBDA c : c # " ")

\* The node reached from node by taking the first element i times (absent
\* when a node on the way is no array or is empty)
RECURSIVE FirstDescendant(_, _)
FirstDescendant(node, i) ==
    IF i = 0 THEN node ELSE At(FirstDescendant(node, i - 1), 0)

CountOf(str, c) == Cardinality({k \in 1..Len(str) : str[k] = c})

\* C13: parseTensor returns null when the text is no JSON or its value is no
\* array; otherwise it returns the value unchanged and a shape that holds,
\* level by level along the first elements, the length of each array, and
\* ends at the first node that is no array or after an empty array, so that
\* only the last entry can be 0 and sibling lengths play no part.
C13_ParseTensor ==
    pc = "done" =>
        /\ \A n \in JsonNodes :
               Stringify(n) = Unspaced(dataStr) =>
                   /\ tensorData.ok <=> IsArray(n)
                   /\ tensorData.ok => tensorData.data = n
        /\ (Unspaced(dataStr) = <<>> \/ Head(Unspaced(dataStr)) # "[") => ~tensorData.ok
        /\ (CountOf(dataStr, "\"") = 0 /\ CountOf(dataStr, "[") # CountOf(dataStr, "]"))
               => ~tensorData.ok
        /\ ~tensorData.ok => tensorData = NoTensor
        /\ tensorData.ok =>
               LET sh == tensorData.shape
               IN  /\ Len(sh) >= 1
                   /\ \A i \in 1..Len(sh) :
                          /\ IsArray(FirstDescendant(tensorData.data, i - 1))
                          /\ Len(FirstDescendant(tensorData.data, i - 1).items) = sh[i]
                   /\ ~IsArray(FirstDescendant(tensorData.data, Len(sh)))
                   /\ \A i \in 1..(Len(sh) - 1) : sh[i] > 0
        /\ Unspaced(dataStr) = Stringify(Arr(<<NumArr(<<1, 2>>), NumArr(<<3, 4>>)>>))
               => tensorData.shape = <<2, 2>>

\* A ragged array: the second row is longer than the first, which alone
\* decides the shape
C13_Witness ==
    /\ pc = "done"
    /\ tensorData.ok
    /\ tensorData.data = Arr(<<NumArr(<<1>>), NumArr(<<2, 3>>)>>)
    /\ tensorData.shape = <<2, 1>>

\* C14: after any sequence of edits of the shape text and the data text, the
\* shape passed to computeLayout has length at most 8.
C14_RankAtMost8 == pc = "app" => Len(config.shape) <= 8

\* C15: for every shape the App takes from parseShape or parseTensor and every
\* slice selection, the index forced for a page dimension lies in [0, size):
\* every indexPath[d] of every returned instance is in [0, shape[d]).
C15_IndexInRange ==
    pc = "app" =>
        \A k \in 1..Len(instances) : \A d \in Dims :
            /\ instances[k].indexPath[d + 1] >= 0
            /\ instances[k].indexPath[d + 1] < config.shape[d + 1]

\* The slots are dimensions or null and outerDims holds dimensions only.
ValidIndices ==
    /\ \A a \in 1..3 : config.spatialDims[a] = Null \/ config.spatialDims[a] \in Dims
    /\ \A k \in 1..Len(config.outerDims) : config.outerDims[k] \in Dims

\* C16: for a configuration whose slots are dimensions or null and whose
\* outerDims are dimensions, computeLayout returns and does not throw, also
\* when a slice value is out of bounds and when two slots hold the same
\* dimension; the indexPaths returned are the Cartesian product of the
\* sampled sets, each once, and the ids are pairwise distinct.
C16_NoErrorOutcome ==
    (pc # "layout" /\ ValidIndices) =>
        /\ pc = "done"
        /\ Len(config.shape) >= 1 =>
               /\ {instances[k].indexPath : k \in 1..Len(instances)}
                      = CartesianProduct(Len(config.shape))
               /\ Len(instances) = Cardinality(CartesianProduct(Len(config.shape)))
               /\ \A j, k \in 1..Len(instances) :
                      j # k => instances[j].id # instances[k].id
               /\ \A k \in 1..Len(instances) : \A d \in Dims :
                      IsPage(d) => instances[k].indexPath[d + 1] = PageIndex(d)

\* Two slots hold the same dimension, and a page dimension has a slice value
\* beyond its size
C16_Witness ==
    /\ pc = "done"
    /\ ValidIndices
    /\ config.spatialDims[1] # Null
    /\ config.spatialDims[1] = config.spatialDims[2]
    /\ \E d \in Dims : /\ IsPage(d)
                       /\ d \in DOMAIN config.sliceIndices
                       /\ config.sliceIndices[d] >= config.shape[d + 1]
    /\ Len(instances) >= 2

\* C17: an empty shape yields an empty layout and no error, whatever the
\* other fields of the configuration are; so does a shape parsed from a text
\* in which parseShape finds no positive integer.
C17_EmptyShape ==
    (pc # "layout" /\ (config.shape = <<>> \/ PositiveRuns = {})) =>
        /\ pc = "done"
        /\ instances = <<>>

\* A text with digit runs that are all zero, and a configuration whose slots,
\* outerDims, slice selection and data are all set
C17_Witness ==
    /\ pc = "done"
    /\ Cardinality(RunStarts) = 2
    /\ PositiveRuns = {}
    /\ config.shape = <<>>
    /\ config.spatialDims = <<0, 0, Null>>
    /\ config.outerDims = <<0, 0>>
    /\ config.sliceIndices # NoSlices
    /\ config.data # Undefined
    /\ instances = <<>>

\* Two configurations that are equal in every field but sliceIndices
SameButSlices(a, b) ==
    [a EXCEPT !.sliceIndices = NoSlices] = [b EXCEPT !.sliceIndices = NoSlices]

\* The entry of sliceIndices for a dimension: none, or one value
SliceEntry(cfg, d) ==
    IF d \in DOMAIN cfg.sliceIndices THEN {cfg.sliceIndices[d]} ELSE {}

AgreeOnOuter(a, b) ==
    \A k \in 1..Len(a.outerDims) :
        SliceEntry(a, a.outerDims[k]) = SliceEntry(b, a.outerDims[k])

\* C18: sliceIndices is consulted only for page dimensions: two tiling
\* configurations that differ only in sliceIndices have equal outputs, and so
\* have two slicing configurations that differ only in sliceIndices entries
\* of dimensions outside outerDims.
C18_SlicesOnlyForPages ==
    \A i, j \in 1..Len(calls) :
        (/\ pc = "slices"
         /\ SameButSlices(calls[i].config, calls[j].config)
         /\ \/ calls[i].config.mode = "tiling"
            \/ AgreeOnOuter(calls[i].config, calls[j].config))
        => calls[i].result = calls[j].result

\* Both cases in one run: a tiling pair with different sliceIndices, or a
\* slicing pair that differs in the entries of dimensions 0 and 1 only, with
\* an outer dimension present and more than one instance laid out
C18_WitnessTiling ==
    /\ pc = "slices"
    /\ Len(calls) = 2
    /\ config.mode = "tiling"
    /\ Len(config.outerDims) >= 1
    /\ calls[1].config.sliceIndices = NoSlices
    /\ DOMAIN calls[2].config.sliceIndices = 0..(MaxRank - 1)
    /\ Len(calls[1].result) > 1
    /\ calls[1].result = calls[2].result

C18_Witness ==
    /\ pc = "slices"
    /\ Len(calls) = 3
    /\ config.mode = "slicing"
    /\ Len(config.outerDims) >= 1
    /\ calls[1].config.sliceIndices = NoSlices
    /\ DOMAIN calls[2].config.sliceIndices = {0, 1}
    /\ Len(calls[1].result) > 1
    /\ calls[1].result = calls[2].result
    /\ calls[3].result # calls[1].result

\* Rounding of the exact quotient num / den to the nearest integer, halves up
NearestHalfUp(num, den) ==
    CHOOSE n \in 0..num : 2 * den * n - den <= 2 * num /\ 2 * num < 2 * den * n + den

\* round(i * (size - 1) / (cap - 1)) for i = 0..cap-1, as a sequence
Rounded(sz, cap) == [k \in 1..cap |-> NearestHalfUp((k - 1) * (sz - 1), cap - 1)]

\* The positions of a sequence that hold the first occurrence of their value
FirstOccurrences(s) == {k \in 1..Len(s) : \A j \in 1..(k - 1) : s[j] # s[k]}

Deduplicated(s) ==
    [n \in 1..Cardinality(FirstOccurrences(s)) |->
        s[CHOOSE k \in FirstOccurrences(s) :
              Cardinality({j \in FirstOccurrences(s) : j < k}) = n - 1]]

ReferenceSample(sz, cap) ==
    IF sz <= cap THEN [k \in 1..sz |-> k - 1]
    ELSE IF cap < 2 THEN <<0>>
    ELSE Deduplicated(Rounded(sz, cap))

\* C19: for size >= 1 and cap >= 0, getSampledIndices(size, cap) is the
\* reference sample: 0..size-1 in order when size <= cap, [0] when size > cap
\* and cap < 2, and otherwise round(i*(size-1)/(cap-1)) for i = 0..cap-1, halves
\* rounded up, with later duplicates dropped.
C19_ReferenceSample ==
    (pc = "done" /\ size >= 1) => indices = ReferenceSample(size, maxCells)

\* The three examples of the claim
C19_Examples ==
    pc = "done" =>
        /\ (size = 5 /\ maxCells = 8) => indices = <<0, 1, 2, 3, 4>>
        /\ (size = 10 /\ maxCells = 4) => indices = <<0, 3, 6, 9>>
        /\ (size = 100 /\ maxCells = 5) => indices = <<0, 25, 50, 74, 99>>

\* The sample the code returns for 62 cells and cap 15: rank 7 is index 30
\* where the reference has 31
C19_HalfRoundedDown ==
    /\ pc = "done"
    /\ size = 62 /\ maxCells = 15
    /\ indices[8] = 30
    /\ ReferenceSample(size, maxCells)[8] = 31
    /\ \A k \in (1..15) \ {8} : indices[k] = ReferenceSample(size, maxCells)[k]

\* The axis of the i-th outer dimension: Y, X, Z, Y, ... (positions are
\* <<x, y, z>>)
TileAxis(i) == IF i % 3 = 0 THEN 2 ELSE IF i % 3 = 1 THEN 1 ELSE 3

\* The sampled count of the dimension bound to the axis's slot, 1 if none is
BlockCount(axis) ==
    IF config.spatialDims[axis] = Null THEN 1
    ELSE SampledCount[config.spatialDims[axis]]

\* The step of the i-th outer dimension: blockSize + 2 for the first tile
\* dimension of its axis, else the step of the tile dimension before it on
\* the axis times that dimension's sampled count, plus 2
RECURSIVE TileStep(_)
TileStep(i) ==
    LET before == {j \in 0..(i - 1) : TileAxis(j) = TileAxis(i)}
        last == CHOOSE j \in before : \A h \in before : h <= j
    IN  IF before = {} THEN BlockCount(TileAxis(i)) + 2
        ELSE TileStep(last) * SampledCount[config.outerDims[last + 1]] + 2

\* The rank of an index within the sampled set of dimension d
RankIn(d, idx) == Cardinality({v \in SampledSet(d) : v < idx})

\* What the slot's dimension and the tile dimensions of an axis add for an
\* index path
RECURSIVE TileOffset(_, _, _)
TileOffset(path, axis, i) ==
    IF i >= Len(config.outerDims) THEN 0
    ELSE (IF TileAxis(i) = axis
          THEN RankIn(config.outerDims[i + 1], path[config.outerDims[i + 1] + 1]) * TileStep(i)
          ELSE 0) + TileOffset(path, axis, i + 1)

AxisOffset(path, axis) ==
    (IF config.spatialDims[axis] = Null THEN 0
     ELSE RankIn(config.spatialDims[axis], path[config.spatialDims[axis] + 1]))
        + TileOffset(path, axis, 0)

\* Two index paths that differ in dimension d only, the second one sampled
\* rank higher
OneRankApart(pa, pb, d) ==
    /\ \A e \in Dims \ {d} : pa[e + 1] = pb[e + 1]
    /\ RankIn(d, pb[d + 1]) = RankIn(d, pa[d + 1]) + 1

Direction(axis) == IF axis = 1 THEN 1 ELSE -1

\* Two index paths that differ in dimension d only
DifferOnlyIn(pa, pb, d) ==
    /\ \A e \in Dims \ {d} : pa[e + 1] = pb[e + 1]
    /\ pa[d + 1] # pb[d + 1]

\* An axis no outer dimension tiles on
Untiled(axis) ==
    \/ config.mode = "slicing"
    \/ \A i \in 0..(Len(config.outerDims) - 1) : TileAxis(i) # axis

LexLess(pa, pb) ==
    \E d \in 1..Len(pa) :
        /\ pa[d] < pb[d]
        /\ \A e \in 1..(d - 1) : pa[e] = pb[e]

\* C22: the returned list is in the order of the nested traversal with
\* dimension 0 outermost: the indexPath of each instance is lexicographically
\* below the indexPath of the next one.
C22_TraversalOrder ==
    LayoutDone =>
        \A k \in 1..(Len(instances) - 1) :
            LexLess(instances[k].indexPath, instances[k + 1].indexPath)

\* Two dimensions of two cells: the last dimension varies fastest
C22_Witness ==
    /\ LayoutDone
    /\ Len(instances) = 4
    /\ [k \in 1..4 |-> instances[k].indexPath]
           = <<(<<0, 0>>), (<<0, 1>>), (<<1, 0>>), (<<1, 1>>)>>

\* The dimensions the bound slots hold
SlotDims == {config.spatialDims[a] : a \in 1..3} \ {Null}

\* The slot that holds dimension d is slot a (1 = X, 2 = Y, 3 = Z)
BoundTo(d, a) ==
    /\ config.spatialDims[a] = d
    /\ \A b \in (1..3) \ {a} : config.spatialDims[b] # d

\* C23: for every rank 0..8 and both dimension orders the three slots hold
\* pairwise distinct dimensions of the shape or null, exactly min(rank, 3)
\* slots are bound, and outerDims is the ascending list of the dimensions no
\* slot holds; first-to-last binds dimension 0 to Y, 1 to X and 2 to Z,
\* last-to-first binds the last dimension to Y, the one before to X and the
\* one before that to Z.
C23_RolePartition ==
    (pc = "done" /\ Len(config.shape) <= 8) =>
        LET rank == Len(config.shape)
            FromFirst(n) == IF dimOrder = "first-to-last" THEN n ELSE rank - 1 - n
        IN  /\ \A a \in 1..3 : config.spatialDims[a] = Null \/ config.spatialDims[a] \in Dims
            /\ \A a, b \in 1..3 :
                   (a # b /\ config.spatialDims[a] # Null)
                   => config.spatialDims[a] # config.spatialDims[b]
            /\ Cardinality({a \in 1..3 : config.spatialDims[a] # Null}) = Min(rank, 3)
            /\ Range(config.outerDims) = Dims \ SlotDims
            /\ \A j \in 1..(Len(config.outerDims) - 1) :
                   config.outerDims[j] < config.outerDims[j + 1]
            /\ rank >= 1 => BoundTo(FromFirst(0), 2)
            /\ rank >= 2 => BoundTo(FromFirst(1), 1)
            /\ rank >= 3 => BoundTo(FromFirst(2), 3)

\* Rank 8, last-to-first: dimensions 6, 7, 5 in the slots X, Y, Z and the
\* five first dimensions outer
C23_Witness ==
    /\ pc = "done"
    /\ Len(config.shape) = 8
    /\ dimOrder = "last-to-first"
    /\ config.spatialDims = <<6, 7, 5>>
    /\ config.outerDims = <<0, 1, 2, 3, 4>>

\* The tiled labels the triad is given for an axis (1 = X, 2 = Y, 3 = Z)
TiledLabels(axis) ==
    IF axis = 1 THEN axisLabels.x.tiled
    ELSE IF axis = 2 THEN axisLabels.y.tiled
    ELSE axisLabels.z.tiled

\* The outer dimensions whose tile offset computeLayout adds to an axis, in
\* the order of outerDims
OuterOn(axis) ==
    SelectSeq(config.outerDims, LAMBDA d : tileStepsOf(config)[d].axis = axis)

\* C24: in tiling mode computeLayout has a tile step for every outer
\* dimension, and the tiled labels of each axis are the labels of exactly the
\* outer dimensions whose tile offset computeLayout adds to that axis, in the
\* order of outerDims; in slicing mode no axis has a tiled label.
C24_LabelsMirrorTiling ==
    pc = "done" =>
        IF mode = "tiling"
        THEN /\ \A i \in 1..Len(config.outerDims) :
                    config.outerDims[i] \in DOMAIN tileStepsOf(config)
             /\ \A axis \in 1..3 :
                    TiledLabels(axis)
                        = [k \in 1..Len(OuterOn(axis)) |->
                              DimLabel(LabelsOf(labelsStr), OuterOn(axis)[k])]
        ELSE \A axis \in 1..3 : TiledLabels(axis) = <<>>

\* Rank 8, first-to-last, labels B, C, H, W: the outer dimensions 3..7 are
\* listed under Y, X, Z, Y, X
C24_Witness ==
    /\ pc = "done"
    /\ mode = "tiling"
    /\ config.outerDims = <<3, 4, 5, 6, 7>>
    /\ axisLabels.y.tiled = <<(<<"W">>), (<<"d", "6">>)>>
    /\ axisLabels.x.tiled = <<(<<"d", "4">>), (<<"d", "7">>)>>
    /\ axisLabels.z.tiled = <<(<<"d", "5">>)>>
    /\ tileStepsOf(config)[6].axis = 2

\* C25: after any sequence of edits of the two texts, when the data text is
\* not blank and parseTensor succeeds on it the layout is computed from the
\* tensor's inferred shape and its data, whatever the shape text is; when the
\* data text is blank or parseTensor returns null the layout is computed from
\* parseShape(shape text) with no data, and every instance has an absent
\* value.
C25_ShapeSource ==
    pc = "app" =>
        /\ instances = computeLayout(config)
        /\ IF ~IsBlank(dataStr) /\ parseTensor(dataStr).ok
           THEN /\ config.shape = parseTensor(dataStr).shape
                /\ config.data = parseTensor(dataStr).data
           ELSE /\ config.shape = parseShape(shapeStr)
                /\ config.data = Undefined
                /\ \A k \in 1..Len(instances) : instances[k].value = Undefined

\* The data text "[1," is no JSON: the cells of the shape text 2, 3, 4, 5 are
\* laid out without values
C25_Witness ==
    /\ pc = "app"
    /\ dataStr = <<"[", "1", ",">>
    /\ ~parseTensor(dataStr).ok
    /\ shapeStr = InitialShapeText
    /\ config.shape = <<2, 3, 4, 5>>
    /\ Len(instances) = 120
    /\ \A k \in 1..Len(instances) : instances[k].value = Undefined

\* C28: for size > cap >= 2 getSampledIndices(size, cap) returns exactly cap
\* indices: the cap values Math.round(i * step), i = 0..cap-1, are pairwise
\* distinct, so the Set drops none of them.
C28_ExactlyCap ==
    (pc = "done" /\ size > maxCells /\ maxCells >= 2) =>
        /\ Len(indices) = maxCells
        /\ \A i, j \in 0..(maxCells - 1) :
               i < j => RoundedSample(i, StepOf(size, maxCells))
                            < RoundedSample(j, StepOf(size, maxCells))
        /\ \A i \in 0..(maxCells - 1) :
               indices[i + 1] = RoundedSample(i, StepOf(size, maxCells))

\* A cap one below the size, where the step is closest to 1: the sample
\* skips one index and keeps every other one
C28_Witness ==
    /\ pc = "done"
    /\ size = maxCells + 1
    /\ maxCells >= 5
    /\ Len(indices) = maxCells
    /\ \E k \in 1..(Len(indices) - 1) : indices[k + 1] = indices[k] + 2


\* C27: the capacity maxCount only grows: over any sequence of renders it is
\* never less than before, it is at least 512 and at least the length of the
\* layout, the mesh was constructed with it, and the instance count set on
\* the mesh never exceeds the capacity the mesh was constructed with.
C27_CapacityOnlyGrows ==
    /\ [](pc = "grid" =>
            /\ maxCount >= InitialMaxCount
            /\ maxCount >= layoutLen
            /\ mesh # NoMesh => mesh.capacity = maxCount /\ mesh.count <= mesh.capacity)
    /\ [][maxCount' >= maxCount]_vars

\* A layout of few cells is drawn by a mesh that was constructed for a layout
\* larger than the initial capacity
C27_Witness ==
    /\ pc = "grid"
    /\ ~effectPending
    /\ layoutLen = SmallLength
    /\ mesh # NoMesh /\ mesh.count = SmallLength
    /\ maxCount > InitialMaxCount


\* The step is a frame that follows the pointer events `events`
FrameAfter(events) == interval \in events /\ interval' = "quiet"

\* C26: hover events are processed once per frame and the latest wins.  A
\* frame calls onHover at most once.  A frame that follows a pointer-out with
\* no pointer-move after it calls onHover(null) and takes the highlight back.
\* A frame that follows a pointer-move, after a pointer-out of the same
\* interval or not, reports the instance of the move (layout[instanceId], or
\* null when out of range) and nothing else.  And while the pointer is off
\* every instance, the pointer-out is pending or null has been reported.
C26_LatestHoverWins ==
    /\ [](pc = "grid" =>
            /\ Len(frameHovers) <= 1
            /\ pointer.kind = "out" => pointerOutPendingRef \/ hovered = NoHover)
    /\ [][FrameAfter({"out"}) =>
            /\ frameHovers' = <<NoHover>>
            /\ hovered' = NoHover
            /\ mesh # NoMesh =>
                 /\ prevHoveredRef' = NullId
                 /\ prevHoveredRef # NullId /\ prevHoveredRef < mesh.count
                       => mesh'.colors[prevHoveredRef] = RestoreColor]_vars
    /\ [][FrameAfter({"move", "outThenMove"}) =>
            /\ frameHovers' = <<InstanceAt(pointer.id, layoutLen)>>
            /\ hovered'.index = (IF pointer.id < layoutLen THEN pointer.id ELSE NullId)
            /\ ~pointerOutPendingRef'
            /\ mesh # NoMesh => prevHoveredRef' = pointer.id]_vars

\* A frame has reported the pointer-out of a highlighted instance
C26_Witness ==
    /\ pc = "grid"
    /\ pointer.kind = "out"
    /\ frameHovers = <<NoHover>>
    /\ hovered = NoHover
    /\ mesh # NoMesh /\ prevHoveredRef = NullId
    /\ ~pointerOutPendingRef /\ pendingPointerRef = NullId


\* The instances of the mesh m that have the hover colour
HoverColoured(m) == {i \in DOMAIN m.colors : m.colors[i] = HOVER_COLOR}

\* C30 as stated: at most one instance of the mesh has the hover colour, and
\* if one has it, it is the instance of prevHoveredRef and its index is below
\* the instance count.
C30_OneHoverColoured ==
    pc = "grid" /\ mesh # NoMesh =>
        /\ Cardinality(HoverColoured(mesh)) <= 1
        /\ \A i \in HoverColoured(mesh) : i = prevHoveredRef /\ i < mesh.count

\* C30, amended: once the layout effect of the last render has run, and
\* unless the restore colour (white in axis mode, the cube colour in uniform
\* mode) is itself the hover colour, at most one of the instances below the
\* instance count has the hover colour, and it is the instance of
\* prevHoveredRef.
C30_OneHighlightDrawn ==
    pc = "grid" /\ mesh # NoMesh /\ ~effectPending /\ RestoreColor # HOVER_COLOR =>
        \A i \in HoverColoured(mesh) : i < mesh.count => i = prevHoveredRef

\* The highlight has moved from instance 0 to instance 5: 5 has the hover
\* colour and is remembered, 0 has the restore colour again
C30_Witness ==
    /\ pc = "grid"
    /\ mesh # NoMesh /\ ~effectPending /\ RestoreColor # HOVER_COLOR
    /\ prevHoveredRef = 5 /\ 5 < mesh.count
    /\ HoverColoured(mesh) = {5}
    /\ mesh.colors[0] = RestoreColor
    /\ hovered.index = 5


\* The pointer rests on an instance of the layout, no setting was changed
\* since it moved there, and the frame has reported the instance to the App
HoverReported ==
    /\ pc = "grid"
    /\ mesh # NoMesh
    /\ pointer.kind = "move" /\ pointer.id < layoutLen
    /\ ~inputSinceMove
    /\ interval = "quiet"
    /\ hovered.index = pointer.id

\* C29 as stated: while the pointer stays over instance i and no setting
\* changes, i stays highlighted after the hover has been reported; the render
\* that follows setHovered produces no new layout value (the hovered instance
\* remains an element of the layout) and schedules no layout effect, so the
\* colours and the remembered instance are not reset.
C29_HighlightPersists ==
    /\ [](HoverReported =>
            /\ prevHoveredRef = pointer.id
            /\ mesh.colors[pointer.id] = HOVER_COLOR)
    /\ [][HoverReported /\ dirty /\ ~dirty' =>
            /\ hovered' = hovered
            /\ ~effectPending'
            /\ mesh' = mesh /\ prevHoveredRef' = prevHoveredRef]_vars

\* The state the code reaches instead: the hover of instance 5 was reported,
\* the App has rendered, the layout effect has run, and instance 5 has its
\* base colour again although the pointer has not left it
C29_HighlightLost ==
    /\ HoverReported
    /\ ~dirty /\ ~effectPending
    /\ pointer.id = 5
    /\ ~hovered.current
    /\ prevHoveredRef = NullId
    /\ mesh.colors[5] = RestoreColor /\ RestoreColor # HOVER_COLOR

====
